---------------------------- MODULE Spec2Model ----------------------------
(***************************************************************************)
(* State-machine model of the HANIMAT vending firmware (src/src/main.cpp): *)
(* the cooperative loop() with its fixed order of steps, the two interrupt *)
(* handlers, the administration web handlers and the relay bus.            *)
(*                                                                         *)
(* Conventions.                                                            *)
(*  - Money is kept in cents (the firmware keeps euros in a float).        *)
(*  - millis() is unbounded; for every timestamp variable T of the source  *)
(*    the model keeps since[T] = millis() - T, saturated at the first      *)
(*    value past the one threshold T is ever compared with.  AdvanceTime   *)
(*    lets one unit of time pass; time passes between two iterations of    *)
(*    loop() (its delay(10)) and inside the busy-wait of an error display, *)
(*    so all steps of one iteration read the same millis().                *)
(*  - pc is the position of the main loop inside loop(); "errorDwell" is   *)
(*    the busy-wait of displayErrorMessage(), during which the web server  *)
(*    is still pumped, and ret says where the error was raised.            *)
(*  - preferences is the durable key/value store.                          *)
(*  - expanderOutputStates is the set of slots whose bit is set in the     *)
(*    16-bit relay mask.  Whether the relay board acknowledges a bus       *)
(*    transmission is an input of the step that transmits.                 *)
(*  - busLog is the list of bus transmissions to the relay board made in  *)
(*    the current iteration of loop(): the operation, the slot, the set of *)
(*    relays the transmitted bank byte switches on, and the acknowledge.   *)
(*  - relayCall is the last call of controlSlotRelay() made in the current *)
(*    iteration: its arguments and whether it returned success.            *)
(*  - pulsesToProcess holds the counts read by the coin and the bill       *)
(*    drain of the current iteration (their local of that name).           *)
(*  - coinGroupIntact and jobDebits are history variables: whether every   *)
(*    pending coin edge came no more than the grouping timeout after the   *)
(*    one before it, and how often the purchase path has debited credit for    *)
(*    the job created last.  coinUndrained is a history variable too: the  *)
(*    number of coin edges the handler has recorded less the counts the    *)
(*    drains have taken.  billEdge is a history variable: the parity of    *)
(*    the number of edges the bill handler has seen, and whether it        *)
(*    counted the last of them.                                            *)
(*  - physicalKey is the key the user holds down where a specification     *)
(*    follows single presses (the keypad scan then senses this key), and   *)
(*    pressEvents is a history variable: the number of key events the scan *)
(*    has returned since that key was pressed.                             *)
(*  - enteredDigit is a history variable: the digit of the last key event  *)
(*    when that digit is the first of an entry, "NUL" after the second     *)
(*    digit of an entry, after '#' and '*' and after every reset of the    *)
(*    selection.                                                           *)
(*  - stockNotices is a history variable: what the last stock check saw    *)
(*    ("high" above the threshold; otherwise what the first check of the   *)
(*    run of checks at or below the threshold saw, "low" for at least one  *)
(*    slot and "zero" for none) and the numbers of "almost empty" and      *)
(*    "empty" messages sent in that run of checks.                         *)
(*  - uploadOpen says that the HTTP transfer of a firmware image is under  *)
(*    way: its start has been delivered to handleOTAFileUpload() and its   *)
(*    end or abort has not.                                                *)
(***************************************************************************)
EXTENDS Integers, Sequences, FiniteSets, TLC

VARIABLES
  pc, ret, key,
  currentSystemState, displayNeedsUpdate,
  credit, slotPrices, slotAvailable, slotLocked, activeSlots,
  preferences,
  selectedSlot, keypadInputBuffer,
  lastPhysicallyPressedKey, lastReturnedKey,
  dispenseJob, expanderOutputStates, billInhibit,
  coinPulseCount, billAcceptorPulseCount,
  almostEmptyNotificationSent, emptyNotificationSent,
  isAuthenticated,
  since,
  busLog, relayCall, pulsesToProcess, coinGroupIntact, coinUndrained, billEdge, jobDebits,
  physicalKey, pressEvents, enteredDigit,
  stockNotices,
  otaUpdateInProgress, uploadOpen

vars == << pc, ret, key, currentSystemState, displayNeedsUpdate,
           credit, slotPrices, slotAvailable, slotLocked, activeSlots,
           preferences, selectedSlot, keypadInputBuffer,
           lastPhysicallyPressedKey, lastReturnedKey,
           dispenseJob, expanderOutputStates, billInhibit,
           coinPulseCount, billAcceptorPulseCount,
           almostEmptyNotificationSent, emptyNotificationSent,
           isAuthenticated, since, busLog, relayCall, pulsesToProcess, coinGroupIntact,
           coinUndrained,
           billEdge, jobDebits, physicalKey, pressEvents, enteredDigit, stockNotices,
           otaUpdateInProgress, uploadOpen >>

(***************************************************************************)
(* Program constants.  Times are in model time units; the configurable     *)
(* timing values (loaded from the store in setup()) are given small values.*)
(***************************************************************************)
MAX_SLOTS == 16
COIN_PROCESSING_DELAY == 1
BILL_ISR_DEBOUNCE_MS == 0
BILL_GROUP_PROCESSING_TIMEOUT_MS == 2
DISPENSE_RELAY_ON_TIME == 2
SLOT_SELECTION_TIMEOUT == 2
DISPLAY_TIMEOUT == 1
STARTUP_IGNORE_BILL_TIME == 1
KEYPAD_DEBOUNCE_PERIOD == 0
RELAY_QUIET_TIME == 1
ERROR_DISPLAY_TIME == 2
almostEmptyThreshold == 1
telegramNotifyAlmostEmpty == TRUE
telegramNotifyEmpty == TRUE

pulseValues == << 0, 0, 10, 20, 50, 100, 200 >>
billValues  == << 0, 0, 0, 0, 5, 0, 0, 0, 10, 0, 0, 0, 0, 0, 0, 0, 20 >>

(***************************************************************************)
(* Bounds of the exploration.                                              *)
(***************************************************************************)
MaxCoinPulses == 7
MaxBillPulses == 17
MaxCredit == 30
MaxOpenCredit == 0
MaxPaidCoinPulses == 2
MaxPaidBillPulses == 4
\* The cap of the message counts of stockNotices.
MaxNotices == 2
\* The number of transmissions of the relay driver taken alone.
MaxRelayCalls == 3

Slots == 0 .. (MAX_SLOTS - 1)
NoKey == "NUL"
Digits == << "0", "1", "2", "3", "4", "5", "6", "7", "8", "9" >>
IsDigit(k) == \E i \in 1..10 : Digits[i] = k
DigitVal(k) == CHOOSE n \in 0..9 : Digits[n + 1] = k

Timers == { "lastCoinPulseTime", "lastBillPulseEdgeTime", "lastBillDebounceEdgeTime",
            "lastRelayChangeTime", "lastUserInteractionTime", "slotSelectedTime",
            "startTime", "lastKeyPressTime", "errorTime", "bootTime" }

\* The first value past the threshold the timestamp is compared with.
SinceCap(t) ==
  CASE t = "lastCoinPulseTime"        -> COIN_PROCESSING_DELAY + 1
    [] t = "lastBillPulseEdgeTime"    -> BILL_GROUP_PROCESSING_TIMEOUT_MS + 1
    [] t = "lastBillDebounceEdgeTime" -> BILL_ISR_DEBOUNCE_MS + 1
    [] t = "lastRelayChangeTime"      -> RELAY_QUIET_TIME
    [] t = "lastUserInteractionTime"  -> DISPLAY_TIMEOUT + 1
    [] t = "slotSelectedTime"         -> SLOT_SELECTION_TIMEOUT + 1
    [] t = "startTime"                -> DISPENSE_RELAY_ON_TIME
    [] t = "lastKeyPressTime"         -> KEYPAD_DEBOUNCE_PERIOD + 1
    [] t = "errorTime"                -> ERROR_DISPLAY_TIME
    [] t = "bootTime"                 -> STARTUP_IGNORE_BILL_TIME

\* millis() - T right after "T = millis()" for every T in ts.
Stamp(s, ts) == [t \in Timers |-> IF t \in ts THEN 0 ELSE s[t]]

(***************************************************************************)
(* Pure functions of the source.                                           *)
(***************************************************************************)
\* String::toInt() of a buffer of digit characters.
RECURSIVE toInt(_)
toInt(buf) ==
  IF Len(buf) = 0 THEN 0
  ELSE 10 * toInt(SubSeq(buf, 1, Len(buf) - 1)) + DigitVal(buf[Len(buf)])

\* pulseValues[n] in cents, 0 when n is outside the table (lines 1219-1220).
CoinValueCents(n) ==
  IF n > 0 /\ n < Len(pulseValues) THEN pulseValues[n + 1] ELSE 0

\* billValues[n] in cents, 0 when n is outside the table (lines 1264-1265).
BillValueCents(n) ==
  IF n > 0 /\ n < Len(billValues) THEN 100 * billValues[n + 1] ELSE 0

countAvailableSlots(avail, locked, n) ==
  Cardinality({ i \in Slots : i < n /\ avail[i] /\ ~locked[i] })

\* checkOverallStockLevel() without the test of the "almost empty" latch.
checkOverallStockLevelRepeats(avail, locked, n, almost, empty) ==
  LET totalAvailable == countAvailableSlots(avail, locked, n) IN
  IF telegramNotifyAlmostEmpty /\ totalAvailable > 0
       /\ totalAvailable <= almostEmptyThreshold
    THEN [almost |-> TRUE, empty |-> FALSE, message |-> "almost"]
  ELSE IF telegramNotifyEmpty /\ totalAvailable = 0 /\ ~empty
    THEN [almost |-> TRUE, empty |-> TRUE, message |-> "empty"]
  ELSE IF totalAvailable > almostEmptyThreshold
    THEN [almost |-> FALSE, empty |-> FALSE, message |-> "none"]
  ELSE [almost |-> almost, empty |-> empty, message |-> "none"]

\* The two latches after checkOverallStockLevel() and the message it sends.
checkOverallStockLevel(avail, locked, n, almost, empty) ==
  LET totalAvailable == countAvailableSlots(avail, locked, n) IN
  IF telegramNotifyAlmostEmpty /\ totalAvailable > 0
       /\ totalAvailable <= almostEmptyThreshold /\ ~almost
    THEN [almost |-> TRUE, empty |-> FALSE, message |-> "almost"]
  ELSE IF telegramNotifyEmpty /\ totalAvailable = 0 /\ ~empty
    THEN [almost |-> TRUE, empty |-> TRUE, message |-> "empty"]
  ELSE IF totalAvailable > almostEmptyThreshold
    THEN [almost |-> FALSE, empty |-> FALSE, message |-> "none"]
  ELSE [almost |-> almost, empty |-> empty, message |-> "none"]

\* stockNotices after a stock check that saw totalAvailable slots and sent
\* message: a check above the threshold starts the counts anew.
NoteStockCheck(h, totalAvailable, message) ==
  LET high == totalAvailable > almostEmptyThreshold
      a == IF high THEN 0 ELSE h.almost
      e == IF high THEN 0 ELSE h.empty
  IN [ seen   |-> IF high THEN "high"
                  ELSE IF h.seen # "high" THEN h.seen
                  ELSE IF totalAvailable = 0 THEN "zero" ELSE "low",
       almost |-> IF message = "almost" /\ a < MaxNotices THEN a + 1 ELSE a,
       empty  |-> IF message = "empty" /\ e < MaxNotices THEN e + 1 ELSE e ]

\* A driver that toggles the bit of the slot, whatever the slot.
RelayMaskToggles(mask, slot, activate) ==
  IF slot \in mask THEN mask \ {slot} ELSE mask \cup {slot}

\* The relay mask after controlSlotRelay(slot, activate), acknowledged or not.
RelayMask(mask, slot, activate) ==
  IF slot < 0 \/ slot >= MAX_SLOTS THEN mask
  ELSE IF activate THEN mask \cup {slot} ELSE mask \ {slot}

\* The slots of the bank (0-7 or 8-15) whose byte controlSlotRelay(slot, _) writes.
Bank(slot) == IF slot < 8 THEN 0..7 ELSE 8..15

\* The transmission of controlSlotRelay(slot, activate) for the mask it has
\* just updated: the bank byte as the set of relays it switches on.
RelayWrite(mask, slot, activate, ack) ==
  [ op |-> IF activate THEN "on" ELSE "off", slot |-> slot,
    data |-> mask \cap Bank(slot), ack |-> ack ]

\* A call of controlSlotRelay(slot, activate) and its result: failure for a
\* slot out of range, otherwise whether the transmission was acknowledged.
NoCall == [ made |-> FALSE, slot |-> 0, activate |-> FALSE, ok |-> FALSE ]
RelayCall(slot, activate, ack) ==
  [ made |-> TRUE, slot |-> slot, activate |-> activate,
    ok |-> ~(slot < 0 \/ slot >= MAX_SLOTS) /\ ack ]

\* The empty transmission of checkRelayBoardOnline().
RelayProbe(ack) == [ op |-> "probe", slot |-> -1, data |-> {}, ack |-> ack ]

\* manualGetKeyState(): the key returned and the debounce state left behind,
\* for the key physically sensed by this scan.
manualGetKeyState(currentPhysicalKey) ==
  IF currentPhysicalKey # lastPhysicallyPressedKey
    THEN [ ret |-> NoKey, lastPhys |-> currentPhysicalKey,
           lastRet |-> IF currentPhysicalKey = NoKey THEN NoKey ELSE lastReturnedKey,
           stamp |-> TRUE ]
  ELSE IF currentPhysicalKey # NoKey
          /\ since["lastKeyPressTime"] > KEYPAD_DEBOUNCE_PERIOD
          /\ currentPhysicalKey # lastReturnedKey
    THEN [ ret |-> currentPhysicalKey, lastPhys |-> lastPhysicallyPressedKey,
           lastRet |-> currentPhysicalKey, stamp |-> FALSE ]
  ELSE [ ret |-> NoKey, lastPhys |-> lastPhysicallyPressedKey,
         lastRet |-> lastReturnedKey, stamp |-> FALSE ]

\* processKeypadSelection() making every valid selection final.
processKeypadSelectionAlwaysFinal(buf, sel, n) ==
  IF Len(buf) = 0 THEN [sel |-> sel, buf |-> buf, selected |-> FALSE, error |-> FALSE]
  ELSE
    LET slotNum == toInt(buf) IN
    IF slotNum >= 1 /\ slotNum <= n
      THEN [ sel |-> slotNum - 1, buf |-> << >>, selected |-> TRUE, error |-> FALSE ]
      ELSE [ sel |-> sel, buf |-> buf, selected |-> FALSE, error |-> Len(buf) = 2 ]

\* processKeypadSelection() leaving the buffer of a final selection in place.
processKeypadSelectionKeepsBuffer(buf, sel, n) ==
  IF Len(buf) = 0 THEN [sel |-> sel, buf |-> buf, selected |-> FALSE, error |-> FALSE]
  ELSE
    LET slotNum == toInt(buf) IN
    IF slotNum >= 1 /\ slotNum <= n
      THEN [ sel |-> slotNum - 1, buf |-> buf, selected |-> TRUE, error |-> FALSE ]
      ELSE [ sel |-> sel, buf |-> buf, selected |-> FALSE, error |-> Len(buf) = 2 ]

\* processKeypadSelection() without the early finality of a large first digit.
processKeypadSelectionWaits(buf, sel, n) ==
  IF Len(buf) = 0 THEN [sel |-> sel, buf |-> buf, selected |-> FALSE, error |-> FALSE]
  ELSE
    LET slotNum == toInt(buf) IN
    IF slotNum >= 1 /\ slotNum <= n
      THEN LET isFinal == (Len(buf) = 2) \/ (n < 10)
           IN [ sel |-> slotNum - 1, buf |-> IF isFinal THEN << >> ELSE buf,
                selected |-> TRUE, error |-> FALSE ]
      ELSE [ sel |-> sel, buf |-> buf, selected |-> FALSE, error |-> Len(buf) = 2 ]

\* processKeypadSelection() on buffer buf: the selection and buffer it leaves,
\* whether it selected a slot and whether it raised the "ungueltig" error.
processKeypadSelection(buf, sel, n) ==
  IF Len(buf) = 0 THEN [sel |-> sel, buf |-> buf, selected |-> FALSE, error |-> FALSE]
  ELSE
    LET slotNum == toInt(buf) IN
    IF slotNum >= 1 /\ slotNum <= n
      THEN LET isFinal == (Len(buf) = 2) \/ (n < 10)
                            \/ (Len(buf) = 1 /\ n >= 10 /\ toInt(buf) > n \div 10)
           IN [ sel |-> slotNum - 1, buf |-> IF isFinal THEN << >> ELSE buf,
                selected |-> TRUE, error |-> FALSE ]
      ELSE [ sel |-> sel, buf |-> buf, selected |-> FALSE, error |-> Len(buf) = 2 ]

(***************************************************************************)
(* The state after setup() for a durable store st.                         *)
(***************************************************************************)
DefaultPrice(i) == 500 + 10 * i

\* A store as setup() reads it: every field holds what the getter returns (the
\* stored value, or the getter's default when the key is absent) and keys is
\* the set of per-slot keys that exist.
BootStore ==
  [ credit      |-> 0,
    activeSlots |-> 2,
    price       |-> [i \in Slots |-> IF i = 0 THEN 10 ELSE IF i = 1 THEN 20
                                     ELSE DefaultPrice(i)],
    avail       |-> [i \in Slots |-> TRUE],
    locked      |-> [i \in Slots |-> FALSE],
    keys        |-> { <<"price", 0>>, <<"price", 1>>, <<"avail", 0>>, <<"avail", 1>> } ]

\* The state setup() leaves for the store it finds.
setup(store) ==
  /\ preferences = store
  /\ pc = "web"
  /\ ret = "none"
  /\ key = NoKey
  /\ currentSystemState = "IDLE"
  /\ displayNeedsUpdate = TRUE
  /\ credit = preferences.credit
  /\ activeSlots = IF preferences.activeSlots <= 0 \/ preferences.activeSlots > MAX_SLOTS
                   THEN MAX_SLOTS ELSE preferences.activeSlots
  /\ slotPrices = preferences.price
  /\ slotAvailable = preferences.avail
  /\ slotLocked = preferences.locked
  /\ selectedSlot = -1
  /\ keypadInputBuffer = << >>
  /\ lastPhysicallyPressedKey = NoKey
  /\ lastReturnedKey = NoKey
  /\ dispenseJob = [active |-> FALSE, slot |-> -1, relayActivated |-> FALSE]
  /\ expanderOutputStates = {}
  /\ billInhibit = "LOW"
  /\ coinPulseCount = 0
  /\ billAcceptorPulseCount = 0
  /\ almostEmptyNotificationSent = FALSE
  /\ emptyNotificationSent = FALSE
  /\ isAuthenticated = FALSE
  /\ since = [t \in Timers |-> IF t \in {"lastUserInteractionTime", "bootTime"}
                                THEN 0 ELSE SinceCap(t)]
  /\ busLog = << >>
  /\ relayCall = NoCall
  /\ pulsesToProcess = [coin |-> 0, bill |-> 0]
  /\ coinGroupIntact = TRUE
  /\ coinUndrained = 0
  /\ billEdge = [seen |-> 0, counted |-> FALSE]
  /\ jobDebits = 0
  /\ physicalKey = NoKey
  /\ pressEvents = 0
  /\ enteredDigit = NoKey
  /\ stockNotices = [seen |-> "high", almost |-> 0, empty |-> 0]
  /\ otaUpdateInProgress = FALSE
  /\ uploadOpen = FALSE

Init == setup(BootStore)

(***************************************************************************)
(* Helpers shared by the steps of loop().                                  *)
(***************************************************************************)
\* The '#' handler without its test of the lock flag.
PurchaseDecisionNoLock(sel) ==
  IF sel = -1 THEN "none"
  ELSE IF ~slotAvailable[sel] THEN "empty"
  ELSE IF credit >= slotPrices[sel] THEN "buy"
  ELSE "insufficient"

\* The '#' handler without its comparison of credit and price.
PurchaseDecisionNoCredit(sel) ==
  IF sel = -1 THEN "none"
  ELSE IF slotLocked[sel] THEN "locked"
  ELSE IF ~slotAvailable[sel] THEN "empty"
  ELSE "buy"

\* Which branch of the '#' handler is taken for selection sel (lines 997-1010).
PurchaseDecision(sel) ==
  IF sel = -1 THEN "none"
  ELSE IF slotLocked[sel] THEN "locked"
  ELSE IF ~slotAvailable[sel] THEN "empty"
  ELSE IF credit >= slotPrices[sel] THEN "buy"
  ELSE "insufficient"

\* scheduleDispense() without its test of dispenseJob.active.
ScheduleDecisionWhileBusy(probeAck) ==
  IF ~probeAck THEN "offline" ELSE "scheduled"

\* scheduleDispense() without its probe of the relay board.
ScheduleDecisionNoProbe(probeAck) ==
  IF dispenseJob.active THEN "ignored" ELSE "scheduled"

\* Which branch of scheduleDispense() is taken (lines 1107-1114);
\* probeAck is the outcome of checkRelayBoardOnline() (lines 340-347).
ScheduleDecision(probeAck) ==
  IF dispenseJob.active THEN "ignored"
  ELSE IF ~probeAck THEN "offline"
  ELSE "scheduled"

\* A job whose open duration never elapses.
OpenDurationNeverElapsed(s) == FALSE

\* The test of step 2 of processDispenseJob() (line 1194) for the times s.
OpenDurationElapsed(s) == s["startTime"] >= DISPENSE_RELAY_ON_TIME

\* A job that ends only when the relay OFF write is acknowledged.
JobEndsOnAck(elapsed, offAck) == elapsed /\ offAck

\* Whether step 2 of processDispenseJob() ends the job: it does once the open
\* duration has elapsed, whatever controlSlotRelay(slot, false) returned
\* (lines 1195-1199).
JobEnds(elapsed, offAck) == elapsed

\* A purchase that leaves the credit as it is.
DebitNothing(c, p) == c

\* credit after the purchase of a slot of price p (lines 1158-1159).
Debit(c, p) == IF c - p < 0 THEN 0 ELSE c - p

\* processDispenseJob() without its test of dispenseJob.relayActivated.
MustActivateAgain == TRUE

\* Whether the relay of an active job is switched on in this call of
\* processDispenseJob() (line 1145).
MustActivate == ~dispenseJob.relayActivated

\* processDispenseJob() ignoring the result of controlSlotRelay(slot, true).
ActivationFailedIgnored(onAck) == FALSE

\* Whether controlSlotRelay(slot, true) reported a failure, for the
\* acknowledge onAck of its transmission (line 1148).
ActivationFailed(onAck) == ~onAck

\* A read-and-zero torn by the handler: the last edge is counted after the
\* read and before the counter is zeroed.
ReadAndZeroTorn(count) ==
  [ read |-> IF count >= 2 THEN count - 1 ELSE count, left |-> 0 ]

\* The masked read-and-zero of a pulse counter (lines 1212-1215): the count
\* read and the count left.
ReadAndZero(count) == [ read |-> count, left |-> 0 ]

\* processAcceptedCoin() without its tests of the pulse count and its value.
CoinAcceptedAnyCount(n) == TRUE

\* Whether a drained count of n coin pulses is credited (lines 1219-1221).
CoinAccepted(n) == CoinValueCents(n) > 0

\* processBillAcceptorPulses() without its tests of the pulse count and value.
BillAcceptedAnyCount(n) == TRUE

\* Whether a drained count of n bill pulses is credited (lines 1264-1266).
BillAccepted(n) == BillValueCents(n) > 0

\* A bill step that always releases the inhibit line.
InhibitLevelReleased(count) == "LOW"

\* The level the last statement of processBillAcceptorPulses() writes to the
\* inhibit line for the counter it reads (line 1287).
InhibitLevel(count) == IF count > 0 THEN "HIGH" ELSE "LOW"

\* A per-slot flag that is changed in memory only.
putBoolNowhere(st, field, slot, value) == st

\* preferences.putBool(field + slot, value): the store with the per-slot flag
\* written and its key existing (lines 1166, 1415, 1571).
putBool(st, field, slot, value) ==
  [st EXCEPT ![field][slot] = value, !.keys = @ \cup {<<field, slot>>}]

\* A credit change that is not written to the store.
PutCreditNowhere(st, c) == st

\* The store after preferences.putFloat("credit", c).
PutCredit(st, c) == [st EXCEPT !.credit = c]

\* A reset of the display that keeps selection and buffer.
resetDisplayKeepsSelection(s) ==
  [ selectedSlot |-> selectedSlot, keypadInputBuffer |-> keypadInputBuffer,
    currentSystemState |-> "IDLE", displayNeedsUpdate |-> TRUE,
    since |-> Stamp(s, {"lastUserInteractionTime"}) ]

\* A reset of the display that leaves the state as it is.
resetDisplayKeepsState(s) ==
  [ selectedSlot |-> -1, keypadInputBuffer |-> << >>,
    currentSystemState |-> currentSystemState, displayNeedsUpdate |-> TRUE,
    since |-> Stamp(s, {"lastUserInteractionTime"}) ]

\* A reset of the display that does not stamp the interaction time.
resetDisplayNoStamp(s) ==
  [ selectedSlot |-> -1, keypadInputBuffer |-> << >>,
    currentSystemState |-> "IDLE", displayNeedsUpdate |-> TRUE,
    since |-> s ]

\* resetDisplayToDefault() at times s: what it assigns (lines 858-864).
resetDisplayToDefault(s) ==
  [ selectedSlot |-> -1, keypadInputBuffer |-> << >>,
    currentSystemState |-> "IDLE", displayNeedsUpdate |-> TRUE,
    since |-> Stamp(s, {"lastUserInteractionTime"}) ]

\* Every error display ends with the job aborted.
AbortsJobAlways(from) == TRUE

\* Whether the caller from of displayErrorMessage() goes on to abort the job:
\* only processDispenseJob() after a failed relay ON write does (lines 1150-1153).
AbortsJob(from) == from = "dispense"

\* displayErrorMessage() up to its busy-wait; from is where it was called.
EnterError(from, s) ==
  /\ currentSystemState' = "ERROR_DISPLAY"
  /\ displayNeedsUpdate' = FALSE
  /\ since' = Stamp(s, {"errorTime"})
  /\ pc' = "errorDwell"
  /\ ret' = from

(***************************************************************************)
(* Time and the environment.                                               *)
(***************************************************************************)
AdvanceTime ==
  /\ pc \in {"web", "errorDwell"}
  /\ since' = [t \in Timers |-> IF since[t] < SinceCap(t) THEN since[t] + 1 ELSE since[t]]
  /\ UNCHANGED << pc, ret, key, currentSystemState, displayNeedsUpdate,
                  credit, slotPrices, slotAvailable, slotLocked, activeSlots,
                  preferences, selectedSlot, keypadInputBuffer, enteredDigit,
                  lastPhysicallyPressedKey, lastReturnedKey, physicalKey, pressEvents,
                  dispenseJob, expanderOutputStates, busLog, relayCall, pulsesToProcess,
                  billInhibit,
                  coinPulseCount, billAcceptorPulseCount,
                  almostEmptyNotificationSent, emptyNotificationSent, stockNotices,
                  otaUpdateInProgress, uploadOpen,
                  isAuthenticated, coinGroupIntact, coinUndrained, billEdge, jobDebits >>

coinAcceptorISR ==
  /\ coinPulseCount < MaxCoinPulses
  /\ coinPulseCount' = coinPulseCount + 1
  /\ coinGroupIntact' = IF coinPulseCount = 0 THEN TRUE
                        ELSE coinGroupIntact
                               /\ since["lastCoinPulseTime"] <= COIN_PROCESSING_DELAY
  /\ coinUndrained' = coinUndrained + 1
  /\ since' = Stamp(since, {"lastCoinPulseTime"})
  /\ UNCHANGED << pc, ret, key, currentSystemState, displayNeedsUpdate,
                  credit, slotPrices, slotAvailable, slotLocked, activeSlots,
                  preferences, selectedSlot, keypadInputBuffer, enteredDigit,
                  lastPhysicallyPressedKey, lastReturnedKey, physicalKey, pressEvents,
                  dispenseJob, expanderOutputStates, busLog, relayCall, pulsesToProcess,
                  billInhibit,
                  billAcceptorPulseCount, billEdge,
                  almostEmptyNotificationSent, emptyNotificationSent, stockNotices,
                  otaUpdateInProgress, uploadOpen,
                  isAuthenticated, jobDebits >>

\* A handler without the start-up window.
EdgeCountedAtBoot(sinceBoot, sinceEdge) == sinceEdge > BILL_ISR_DEBOUNCE_MS

\* The two tests of billAcceptorISR() (lines 434 and 436) on the time since
\* boot and the time since the last counted edge.
EdgeCounted(sinceBoot, sinceEdge) ==
  /\ ~(sinceBoot < STARTUP_IGNORE_BILL_TIME)
  /\ sinceEdge > BILL_ISR_DEBOUNCE_MS

billAcceptorISR ==
  /\ billAcceptorPulseCount < MaxBillPulses
  /\ LET counted == EdgeCounted(since["bootTime"], since["lastBillDebounceEdgeTime"]) IN
     /\ billEdge' = [seen |-> 1 - billEdge.seen, counted |-> counted]
     /\ IF counted
          THEN /\ billAcceptorPulseCount' = billAcceptorPulseCount + 1
               /\ since' = Stamp(since, {"lastBillPulseEdgeTime", "lastBillDebounceEdgeTime"})
          ELSE UNCHANGED << billAcceptorPulseCount, since >>
  /\ UNCHANGED << pc, ret, key, currentSystemState, displayNeedsUpdate,
                  credit, slotPrices, slotAvailable, slotLocked, activeSlots,
                  preferences, selectedSlot, keypadInputBuffer, enteredDigit,
                  lastPhysicallyPressedKey, lastReturnedKey, physicalKey, pressEvents,
                  dispenseJob, expanderOutputStates, busLog, relayCall, pulsesToProcess,
                  billInhibit,
                  coinPulseCount,
                  almostEmptyNotificationSent, emptyNotificationSent, stockNotices,
                  otaUpdateInProgress, uploadOpen,
                  isAuthenticated, coinGroupIntact, coinUndrained, jobDebits >>

\* The user presses key k and holds it, or lets go of the key held.  Outside
\* an error display a key changes only after the scan has sensed the change
\* before it: a tick takes some 10 ms.  An error display blocks the scan for
\* 3 s, during which keys are pressed and released freely.
PressKey(k) ==
  /\ pc \in {"web", "errorDwell"}
  /\ physicalKey = NoKey
  /\ pc = "web" => lastPhysicallyPressedKey = NoKey
  /\ physicalKey' = k
  /\ pressEvents' = 0
  /\ UNCHANGED << pc, ret, key, currentSystemState, displayNeedsUpdate,
                  credit, slotPrices, slotAvailable, slotLocked, activeSlots,
                  preferences, selectedSlot, keypadInputBuffer, enteredDigit,
                  lastPhysicallyPressedKey, lastReturnedKey,
                  dispenseJob, expanderOutputStates, busLog, relayCall, pulsesToProcess,
                  billInhibit, coinPulseCount, billAcceptorPulseCount,
                  almostEmptyNotificationSent, emptyNotificationSent, stockNotices,
                  otaUpdateInProgress, uploadOpen,
                  isAuthenticated, since, coinGroupIntact, coinUndrained, billEdge, jobDebits >>

ReleaseKey ==
  /\ pc \in {"web", "errorDwell"}
  /\ physicalKey # NoKey
  /\ pc = "web" => lastPhysicallyPressedKey = physicalKey
  /\ physicalKey' = NoKey
  /\ UNCHANGED << pc, ret, key, currentSystemState, displayNeedsUpdate,
                  credit, slotPrices, slotAvailable, slotLocked, activeSlots,
                  preferences, selectedSlot, keypadInputBuffer, enteredDigit,
                  lastPhysicallyPressedKey, lastReturnedKey,
                  dispenseJob, expanderOutputStates, busLog, relayCall, pulsesToProcess,
                  billInhibit, coinPulseCount, billAcceptorPulseCount,
                  almostEmptyNotificationSent, emptyNotificationSent, stockNotices,
                  otaUpdateInProgress, uploadOpen,
                  isAuthenticated, since, coinGroupIntact, coinUndrained, billEdge, jobDebits,
                  pressEvents >>

(***************************************************************************)
(* loop(): one action per step, in the order of the source.                *)
(***************************************************************************)
ledgerVars == << slotPrices, slotAvailable, slotLocked, activeSlots >>
latchVars == << almostEmptyNotificationSent, emptyNotificationSent >>
pulseVars == << coinPulseCount, billAcceptorPulseCount, coinGroupIntact, coinUndrained,
               billEdge >>
debounceVars == << lastPhysicallyPressedKey, lastReturnedKey >>
pressVars == << physicalKey, pressEvents >>
relayVars == << expanderOutputStates, busLog, relayCall, pulsesToProcess >>
otaVars == << otaUpdateInProgress, uploadOpen >>

\* server.handleClient() at the top of loop() with no request pending.
NoRequest ==
  /\ pc = "web"
  /\ pc' = "timeouts"
  /\ UNCHANGED << ret, key, currentSystemState, displayNeedsUpdate, credit,
                  ledgerVars, preferences, selectedSlot, keypadInputBuffer, enteredDigit,
                  debounceVars, pressVars, dispenseJob, relayVars, billInhibit, pulseVars,
                  latchVars, stockNotices, otaVars, isAuthenticated, since, jobDebits >>

\* The display-inactivity and slot-selection timeouts (lines 718-731).
CheckTimeouts ==
  /\ pc = "timeouts"
  /\ IF currentSystemState = "OTA_UPDATE"
       THEN /\ pc' = "display"
            /\ UNCHANGED << selectedSlot, keypadInputBuffer, enteredDigit, currentSystemState,
                            displayNeedsUpdate, since >>
     ELSE
       LET displayTimedOut == since["lastUserInteractionTime"] > DISPLAY_TIMEOUT
                                /\ currentSystemState # "IDLE"
           sel1 == IF displayTimedOut THEN -1 ELSE selectedSlot
           selectionTimedOut == sel1 # -1
                                  /\ since["slotSelectedTime"] > SLOT_SELECTION_TIMEOUT
           timedOut == displayTimedOut \/ selectionTimedOut
           reset == resetDisplayToDefault(since)
       IN /\ pc' = "keypad"
          /\ selectedSlot' = IF timedOut THEN reset.selectedSlot ELSE selectedSlot
          /\ keypadInputBuffer' = IF timedOut THEN reset.keypadInputBuffer
                                   ELSE keypadInputBuffer
          /\ enteredDigit' = IF timedOut THEN NoKey ELSE enteredDigit
          /\ currentSystemState' = IF timedOut THEN reset.currentSystemState
                                    ELSE currentSystemState
          /\ displayNeedsUpdate' = IF timedOut THEN reset.displayNeedsUpdate
                                    ELSE displayNeedsUpdate
          /\ since' = IF timedOut THEN reset.since ELSE since
  /\ UNCHANGED << ret, key, credit, ledgerVars, preferences, debounceVars, pressVars,
                  dispenseJob, relayVars, billInhibit, pulseVars, latchVars, stockNotices, otaVars,
                  isAuthenticated, jobDebits >>

\* processKeypad() for the key currentPhysicalKey sensed by this scan; probeAck
\* is whether the relay board answers the probe of scheduleDispense().
processKeypad(currentPhysicalKey, probeAck) ==
  /\ pc = "keypad"
  /\ LET scan == manualGetKeyState(currentPhysicalKey)
         s0 == IF scan.stamp THEN Stamp(since, {"lastKeyPressTime"}) ELSE since
         s1 == Stamp(s0, {"lastUserInteractionTime"})
     IN
     /\ key' = scan.ret
     /\ pressEvents' = IF physicalKey # NoKey /\ scan.ret # NoKey
                       THEN pressEvents + 1 ELSE pressEvents
     /\ lastPhysicallyPressedKey' = scan.lastPhys
     /\ lastReturnedKey' = scan.lastRet
     /\ IF scan.ret = NoKey THEN
          /\ pc' = "coin"
          /\ since' = s0
          /\ UNCHANGED << ret, currentSystemState, displayNeedsUpdate, selectedSlot,
                          keypadInputBuffer, enteredDigit, dispenseJob, jobDebits, busLog >>
        ELSE IF IsDigit(scan.ret) THEN
          LET buf0 == IF Len(keypadInputBuffer) >= 2 THEN << >> ELSE keypadInputBuffer
              buf1 == Append(buf0, scan.ret)
              r == processKeypadSelection(buf1, selectedSlot, activeSlots)
          IN IF r.error THEN
               /\ keypadInputBuffer' = buf1
               /\ enteredDigit' = NoKey
               /\ EnterError("digit", s1)
               /\ UNCHANGED << selectedSlot, dispenseJob, jobDebits, busLog >>
             ELSE
               /\ keypadInputBuffer' = r.buf
               /\ enteredDigit' = IF enteredDigit = NoKey THEN scan.ret ELSE NoKey
               /\ selectedSlot' = r.sel
               /\ since' = IF r.selected THEN Stamp(s1, {"slotSelectedTime"}) ELSE s1
               /\ currentSystemState' = "USER_INTERACTION"
               /\ displayNeedsUpdate' = TRUE
               /\ pc' = "coin"
               /\ UNCHANGED << ret, dispenseJob, jobDebits, busLog >>
        ELSE IF scan.ret = "#" THEN
          LET r == processKeypadSelection(keypadInputBuffer, selectedSlot, activeSlots)
              s2 == IF r.selected THEN Stamp(s1, {"slotSelectedTime"}) ELSE s1
              decision == PurchaseDecision(r.sel)
          IN IF r.error THEN
               /\ EnterError("hashSelection", s1)
               /\ UNCHANGED << selectedSlot, keypadInputBuffer, enteredDigit, dispenseJob, jobDebits,
                               busLog >>
             ELSE IF decision = "buy" /\ ScheduleDecision(probeAck) = "scheduled" THEN
               /\ dispenseJob' = [active |-> TRUE, slot |-> r.sel, relayActivated |-> FALSE]
               /\ jobDebits' = 0
               /\ busLog' = Append(busLog, RelayProbe(probeAck))
               /\ since' = Stamp(s2, {"startTime"})
               /\ currentSystemState' = "USER_INTERACTION"
               /\ selectedSlot' = r.sel
               /\ keypadInputBuffer' = << >>
               /\ enteredDigit' = NoKey
               /\ displayNeedsUpdate' = TRUE
               /\ pc' = "coin"
               /\ UNCHANGED ret
             ELSE IF decision = "buy" /\ ScheduleDecision(probeAck) = "ignored" THEN
               /\ since' = s2
               /\ currentSystemState' = "USER_INTERACTION"
               /\ selectedSlot' = r.sel
               /\ keypadInputBuffer' = << >>
               /\ enteredDigit' = NoKey
               /\ displayNeedsUpdate' = TRUE
               /\ pc' = "coin"
               /\ UNCHANGED << ret, dispenseJob, jobDebits, busLog >>
             ELSE
               /\ selectedSlot' = r.sel
               /\ keypadInputBuffer' = r.buf
               /\ enteredDigit' = NoKey
               /\ EnterError("hash", s2)
               /\ busLog' = IF decision = "buy"
                            THEN Append(busLog, RelayProbe(probeAck)) ELSE busLog
               /\ UNCHANGED << dispenseJob, jobDebits >>
        ELSE
          \* '*': resetDisplayToDefault()
          LET reset == resetDisplayToDefault(s1) IN
          /\ selectedSlot' = reset.selectedSlot
          /\ keypadInputBuffer' = reset.keypadInputBuffer
          /\ enteredDigit' = NoKey
          /\ currentSystemState' = reset.currentSystemState
          /\ displayNeedsUpdate' = TRUE
          /\ since' = reset.since
          /\ pc' = "coin"
          /\ UNCHANGED << ret, dispenseJob, jobDebits, busLog >>
  /\ UNCHANGED << credit, ledgerVars, preferences, expanderOutputStates, relayCall,
                  pulsesToProcess, billInhibit, pulseVars, latchVars, stockNotices, otaVars,
                  isAuthenticated, physicalKey >>

\* The end of displayErrorMessage()'s busy-wait: resetDisplayToDefault(), then
\* the rest of the function that raised the error.
EndErrorDwell ==
  /\ pc = "errorDwell"
  /\ since["errorTime"] >= ERROR_DISPLAY_TIME
  /\ IF ret = "hashSelection" THEN
       \* processKeypadSelection() returns into the '#' branch with no slot
       \* selected: displayErrorMessage("Kein Fach", "gewaehlt!").
       /\ selectedSlot' = -1
       /\ keypadInputBuffer' = << >>
       /\ enteredDigit' = NoKey
       /\ EnterError("hash", Stamp(since, {"lastUserInteractionTime"}))
       /\ UNCHANGED << dispenseJob, billInhibit >>
     ELSE
       LET reset == resetDisplayToDefault(since) IN
       /\ selectedSlot' = reset.selectedSlot
       /\ keypadInputBuffer' = reset.keypadInputBuffer
       /\ enteredDigit' = NoKey
       /\ currentSystemState' = reset.currentSystemState
       /\ displayNeedsUpdate' = reset.displayNeedsUpdate
       /\ since' = reset.since
       /\ ret' = "none"
       /\ IF AbortsJob(ret)
            THEN /\ dispenseJob' = [dispenseJob EXCEPT !.active = FALSE]
                 /\ billInhibit' = "LOW"
                 /\ pc' = "display"
            ELSE /\ pc' = "coin"
                 /\ UNCHANGED << dispenseJob, billInhibit >>
  /\ UNCHANGED << key, credit, ledgerVars, preferences, debounceVars, pressVars, relayVars,
                  pulseVars, latchVars, stockNotices, otaVars, isAuthenticated, jobDebits >>

\* processKeypad() has returned (its local key is gone);
\* processAcceptedCoin(): the test of line 1210.
CheckCoin ==
  /\ pc = "coin"
  /\ pc' = IF coinPulseCount > 0 /\ since["lastCoinPulseTime"] > COIN_PROCESSING_DELAY
           THEN "coinDrain" ELSE "bill"
  /\ key' = NoKey
  /\ UNCHANGED << ret, currentSystemState, displayNeedsUpdate, credit,
                  ledgerVars, preferences, selectedSlot, keypadInputBuffer, enteredDigit,
                  debounceVars, pressVars, dispenseJob, relayVars, billInhibit, pulseVars,
                  latchVars, stockNotices, otaVars, isAuthenticated, since, jobDebits >>

\* processAcceptedCoin(): the masked read-and-zero and the crediting
\* (lines 1211-1238).
DrainCoin ==
  /\ pc = "coinDrain"
  /\ LET n == ReadAndZero(coinPulseCount).read IN
     /\ pulsesToProcess' = [pulsesToProcess EXCEPT !.coin = n]
     /\ coinPulseCount' = ReadAndZero(coinPulseCount).left
     /\ coinUndrained' = coinUndrained - n
     /\ coinGroupIntact' = TRUE
     /\ IF CoinAccepted(n) THEN
          /\ credit' = credit + CoinValueCents(n)
          /\ preferences' = PutCredit(preferences, credit')
          /\ displayNeedsUpdate' = TRUE
          /\ since' = Stamp(since, {"lastUserInteractionTime"})
          /\ currentSystemState' = "USER_INTERACTION"
        ELSE UNCHANGED << credit, preferences, displayNeedsUpdate, since,
                          currentSystemState >>
  /\ pc' = "bill"
  /\ UNCHANGED << ret, key, ledgerVars, selectedSlot, keypadInputBuffer, enteredDigit,
                  debounceVars, pressVars, dispenseJob, expanderOutputStates, busLog, relayCall, billInhibit,
                  billAcceptorPulseCount, billEdge, latchVars, stockNotices, otaVars, isAuthenticated, jobDebits >>

\* processBillAcceptorPulses(): the quiet period after a relay change and the
\* test of line 1255.
CheckBill ==
  /\ pc = "bill"
  /\ IF since["lastRelayChangeTime"] < RELAY_QUIET_TIME THEN
       /\ billAcceptorPulseCount' = 0
       /\ pc' = "dispense"
       /\ UNCHANGED billInhibit
     ELSE IF billAcceptorPulseCount > 0
             /\ since["lastBillPulseEdgeTime"] > BILL_GROUP_PROCESSING_TIMEOUT_MS THEN
       /\ pc' = "billDrain"
       /\ UNCHANGED << billAcceptorPulseCount, billInhibit >>
     ELSE
       /\ billInhibit' = InhibitLevel(billAcceptorPulseCount)
       /\ pc' = "dispense"
       /\ UNCHANGED billAcceptorPulseCount
  /\ UNCHANGED << ret, key, currentSystemState, displayNeedsUpdate, credit,
                  ledgerVars, preferences, selectedSlot, keypadInputBuffer, enteredDigit,
                  debounceVars, pressVars, dispenseJob, relayVars, coinPulseCount,
                  coinGroupIntact, coinUndrained, billEdge, latchVars, stockNotices, otaVars, isAuthenticated, since, jobDebits >>

\* processBillAcceptorPulses(): the masked read-and-zero, the crediting and
\* the inhibit line (lines 1256-1287).
DrainBill ==
  /\ pc = "billDrain"
  /\ LET n == billAcceptorPulseCount IN
     /\ pulsesToProcess' = [pulsesToProcess EXCEPT !.bill = n]
     /\ billAcceptorPulseCount' = 0
     /\ IF BillAccepted(n) THEN
          /\ credit' = credit + BillValueCents(n)
          /\ preferences' = PutCredit(preferences, credit')
          /\ displayNeedsUpdate' = TRUE
          /\ since' = Stamp(since, {"lastUserInteractionTime"})
          /\ currentSystemState' = "USER_INTERACTION"
        ELSE UNCHANGED << credit, preferences, displayNeedsUpdate, since,
                          currentSystemState >>
  /\ billInhibit' = InhibitLevel(billAcceptorPulseCount')
  /\ pc' = "dispense"
  /\ UNCHANGED << ret, key, ledgerVars, selectedSlot, keypadInputBuffer, enteredDigit,
                  debounceVars, pressVars, dispenseJob, expanderOutputStates, busLog, relayCall,
                  coinPulseCount,
                  coinGroupIntact, coinUndrained, billEdge, latchVars, stockNotices, otaVars, isAuthenticated, jobDebits >>

\* processDispenseJob() (lines 1138-1204); onAck and offAck are whether the
\* relay board acknowledges the write that switches the relay on and off.
processDispenseJob(onAck, offAck) ==
  /\ pc = "dispense"
  /\ IF ~dispenseJob.active THEN
       /\ pc' = "display"
       /\ UNCHANGED << ret, currentSystemState, displayNeedsUpdate, credit,
                       slotAvailable, preferences, selectedSlot, keypadInputBuffer, enteredDigit,
                       dispenseJob, expanderOutputStates, busLog, relayCall, billInhibit,
                       latchVars, stockNotices, since, jobDebits >>
     ELSE IF MustActivate /\ ActivationFailed(onAck) THEN
       \* Step 1, the relay write is not acknowledged: the error is shown.
       /\ billInhibit' = "HIGH"
       /\ expanderOutputStates' = RelayMask(expanderOutputStates, dispenseJob.slot, TRUE)
       /\ busLog' = Append(busLog, RelayWrite(expanderOutputStates', dispenseJob.slot,
                                              TRUE, onAck))
       /\ relayCall' = RelayCall(dispenseJob.slot, TRUE, onAck)
       /\ EnterError("dispense", since)
       /\ UNCHANGED << credit, slotAvailable, preferences, selectedSlot,
                       keypadInputBuffer, enteredDigit, dispenseJob, latchVars, stockNotices, jobDebits >>
     ELSE
       LET activate == MustActivate
           slot == dispenseJob.slot
           \* after step 1
           mask1 == IF activate THEN RelayMask(expanderOutputStates, slot, TRUE)
                    ELSE expanderOutputStates
           credit1 == IF activate THEN Debit(credit, slotPrices[slot]) ELSE credit
           avail1 == IF activate THEN [slotAvailable EXCEPT ![slot] = FALSE]
                     ELSE slotAvailable
           prefs1 == IF activate
                     THEN putBool(PutCredit(preferences, credit1), "avail", slot, FALSE)
                     ELSE preferences
           latch1 == IF activate
                     THEN checkOverallStockLevel(avail1, slotLocked, activeSlots,
                            almostEmptyNotificationSent, emptyNotificationSent)
                     ELSE [almost |-> almostEmptyNotificationSent,
                           empty |-> emptyNotificationSent, message |-> "none"]
           since1 == IF activate THEN Stamp(since, {"lastRelayChangeTime", "startTime"})
                     ELSE since
           \* step 2
           elapsed == OpenDurationElapsed(since1)
           since2 == IF elapsed
                     THEN Stamp(since1, (IF offAck THEN {"lastRelayChangeTime"} ELSE {})
                                         \cup {"lastUserInteractionTime"})
                     ELSE since1
           mask2 == IF elapsed THEN RelayMask(mask1, slot, FALSE) ELSE mask1
           log1 == IF activate THEN Append(busLog, RelayWrite(mask1, slot, TRUE, onAck))
                   ELSE busLog
       IN
       /\ busLog' = IF elapsed THEN Append(log1, RelayWrite(mask2, slot, FALSE, offAck))
                    ELSE log1
       /\ relayCall' = IF elapsed THEN RelayCall(slot, FALSE, offAck)
                       ELSE IF activate THEN RelayCall(slot, TRUE, onAck)
                       ELSE relayCall
       /\ credit' = credit1
       /\ slotAvailable' = avail1
       /\ preferences' = prefs1
       /\ almostEmptyNotificationSent' = latch1.almost
       /\ emptyNotificationSent' = latch1.empty
       /\ stockNotices' =
            IF activate
            THEN NoteStockCheck(stockNotices,
                   countAvailableSlots(avail1, slotLocked, activeSlots),
                   latch1.message)
            ELSE stockNotices
       /\ jobDebits' = IF activate THEN jobDebits + 1 ELSE jobDebits
       /\ since' = since2
       /\ expanderOutputStates' = mask2
       /\ dispenseJob' = [dispenseJob EXCEPT !.relayActivated = TRUE,
                                             !.active = ~JobEnds(elapsed, offAck)]
       /\ billInhibit' = IF elapsed THEN "LOW"
                         ELSE IF activate THEN "HIGH" ELSE billInhibit
       /\ selectedSlot' = IF elapsed THEN -1 ELSE selectedSlot
       /\ keypadInputBuffer' = IF elapsed THEN << >> ELSE keypadInputBuffer
       /\ enteredDigit' = IF elapsed THEN NoKey ELSE enteredDigit
       /\ currentSystemState' = IF elapsed THEN "IDLE" ELSE "USER_INTERACTION"
       /\ displayNeedsUpdate' = IF elapsed \/ activate THEN TRUE ELSE displayNeedsUpdate
       /\ pc' = "display"
       /\ UNCHANGED ret
  /\ UNCHANGED << key, slotPrices, slotLocked, activeSlots, debounceVars, pressVars,
                  pulsesToProcess, pulseVars, isAuthenticated, otaVars >>

\* The end of loop(): the web auto-logout and the redraw (lines 740-750).
\* The web inactivity timer is not kept: the logout may happen at any tick.
EndOfLoop ==
  /\ pc = "display"
  /\ isAuthenticated' \in (IF isAuthenticated THEN {TRUE, FALSE} ELSE {FALSE})
  /\ displayNeedsUpdate' = IF displayNeedsUpdate /\ currentSystemState # "OTA_UPDATE"
                           THEN FALSE ELSE displayNeedsUpdate
  /\ busLog' = << >>
  /\ relayCall' = NoCall
  /\ pulsesToProcess' = [coin |-> 0, bill |-> 0]
  /\ pc' = "web"
  /\ UNCHANGED << ret, key, currentSystemState, credit, ledgerVars, preferences,
                  selectedSlot, keypadInputBuffer, enteredDigit, debounceVars, pressVars, dispenseJob,
                  expanderOutputStates, billInhibit, pulseVars, latchVars, stockNotices, otaVars, since,
                  jobDebits >>

(***************************************************************************)
(* The administration web handlers.  server.handleClient() runs at the top *)
(* of loop() and inside the busy-wait of displayErrorMessage().            *)
(***************************************************************************)
\* A web server that is also polled between the steps of an iteration.
ServingMidTick == TRUE

Serving == pc \in {"web", "errorDwell"}
Served == pc' = IF pc = "web" THEN "timeouts" ELSE pc

handleLogin ==
  /\ Serving /\ Served
  /\ ~isAuthenticated
  /\ isAuthenticated' = TRUE
  /\ UNCHANGED << ret, key, currentSystemState, displayNeedsUpdate, credit,
                  ledgerVars, preferences, selectedSlot, keypadInputBuffer, enteredDigit,
                  debounceVars, pressVars, dispenseJob, relayVars, billInhibit, pulseVars,
                  latchVars, stockNotices, otaVars, since, jobDebits >>

handleAddCreditWeb(amount) ==
  /\ Serving /\ Served
  /\ isAuthenticated
  /\ amount # 0
  /\ credit + amount <= MaxCredit
  /\ credit + amount >= 0 - MaxCredit
  /\ credit' = credit + amount
  /\ preferences' = PutCredit(preferences, credit')
  /\ displayNeedsUpdate' = TRUE
  /\ UNCHANGED << ret, key, currentSystemState, ledgerVars, selectedSlot,
                  keypadInputBuffer, enteredDigit, debounceVars, pressVars, dispenseJob, relayVars,
                  billInhibit, pulseVars, latchVars, stockNotices, otaVars, isAuthenticated, since,
                  jobDebits >>

handleResetCreditWeb ==
  /\ Serving /\ Served
  /\ isAuthenticated
  /\ credit' = 0
  /\ preferences' = PutCredit(preferences, credit')
  /\ displayNeedsUpdate' = TRUE
  /\ UNCHANGED << ret, key, currentSystemState, ledgerVars, selectedSlot,
                  keypadInputBuffer, enteredDigit, debounceVars, pressVars, dispenseJob, relayVars,
                  billInhibit, pulseVars, latchVars, stockNotices, otaVars, isAuthenticated, since,
                  jobDebits >>

\* A refill that does not look at the lock.
RefillAllowedWhenLocked(locked) == TRUE

\* The lock test of both refill handlers (lines 1412, 1469).
RefillAllowed(locked) == ~locked

handleRefillWeb(slot) ==
  /\ Serving /\ Served
  /\ isAuthenticated
  /\ slot >= 0 /\ slot < activeSlots
  /\ IF RefillAllowed(slotLocked[slot]) THEN
       /\ slotAvailable' = [slotAvailable EXCEPT ![slot] = TRUE]
       /\ preferences' = putBool(preferences, "avail", slot, TRUE)
       /\ LET latch == checkOverallStockLevel(slotAvailable', slotLocked, activeSlots,
                         almostEmptyNotificationSent, emptyNotificationSent)
          IN /\ almostEmptyNotificationSent' = latch.almost
             /\ emptyNotificationSent' = latch.empty
             /\ stockNotices' = NoteStockCheck(stockNotices,
                   countAvailableSlots(slotAvailable', slotLocked, activeSlots),
                   latch.message)
       /\ displayNeedsUpdate' = TRUE
     ELSE
       \* a locked slot: the request is answered with 400
       UNCHANGED << slotAvailable, preferences, latchVars, stockNotices, displayNeedsUpdate >>
  /\ UNCHANGED << ret, key, currentSystemState, credit, slotPrices, slotLocked,
                  activeSlots, selectedSlot, keypadInputBuffer, enteredDigit, debounceVars, pressVars,
                  dispenseJob, relayVars, billInhibit, pulseVars, isAuthenticated,
                  since, jobDebits, otaVars >>

\* handleRefillAllWeb(): every active slot that is not locked is marked
\* available in memory and in the store.
handleRefillAllWeb ==
  /\ Serving /\ Served
  /\ isAuthenticated
  /\ LET refilled == { i \in Slots : i < activeSlots /\ RefillAllowed(slotLocked[i]) } IN
     /\ slotAvailable' = [i \in Slots |-> IF i \in refilled THEN TRUE ELSE slotAvailable[i]]
     /\ preferences' = [preferences EXCEPT
                          !.avail = [i \in Slots |-> IF i \in refilled THEN TRUE ELSE @[i]],
                          !.keys = @ \cup { <<"avail", i>> : i \in refilled }]
  /\ LET latch == checkOverallStockLevel(slotAvailable', slotLocked, activeSlots,
                    almostEmptyNotificationSent, emptyNotificationSent)
     IN /\ almostEmptyNotificationSent' = latch.almost
        /\ emptyNotificationSent' = latch.empty
        /\ stockNotices' = NoteStockCheck(stockNotices,
              countAvailableSlots(slotAvailable', slotLocked, activeSlots),
              latch.message)
  /\ displayNeedsUpdate' = TRUE
  /\ UNCHANGED << ret, key, currentSystemState, credit, slotPrices, slotLocked,
                  activeSlots, selectedSlot, keypadInputBuffer, enteredDigit, debounceVars, pressVars,
                  dispenseJob, relayVars, billInhibit, pulseVars, isAuthenticated,
                  since, jobDebits, otaVars >>

handleToggleSlotLockWeb(slot) ==
  /\ Serving /\ Served
  /\ isAuthenticated
  /\ slot >= 0 /\ slot < activeSlots
  /\ slotLocked' = [slotLocked EXCEPT ![slot] = ~slotLocked[slot]]
  /\ preferences' = putBool(preferences, "locked", slot, slotLocked'[slot])
  /\ displayNeedsUpdate' = TRUE
  /\ UNCHANGED << ret, key, currentSystemState, credit, slotPrices, slotAvailable,
                  activeSlots, selectedSlot, keypadInputBuffer, enteredDigit, debounceVars, pressVars,
                  dispenseJob, relayVars, billInhibit, pulseVars, latchVars, stockNotices, otaVars,
                  isAuthenticated, since, jobDebits >>

handleUpdatePriceWeb(slot, price) ==
  /\ Serving /\ Served
  /\ isAuthenticated
  /\ slot >= 0 /\ slot < activeSlots /\ price >= 0
  /\ slotPrices' = [slotPrices EXCEPT ![slot] = price]
  /\ preferences' = [preferences EXCEPT !.price[slot] = price,
                                       !.keys = @ \cup {<<"price", slot>>}]
  /\ displayNeedsUpdate' = TRUE
  /\ UNCHANGED << ret, key, currentSystemState, credit, slotAvailable, slotLocked,
                  activeSlots, selectedSlot, keypadInputBuffer, enteredDigit, debounceVars, pressVars,
                  dispenseJob, relayVars, billInhibit, pulseVars, latchVars, stockNotices, otaVars,
                  isAuthenticated, since, jobDebits >>

\* handleUpdateSlotsWeb() for maxSlots = newNumSlots: a count outside
\* 1..MAX_SLOTS is answered with 400; otherwise the count is stored and every
\* slot below it that has no stored availability or price gets one.
handleUpdateSlotsWeb(newNumSlots) ==
  /\ Serving /\ Served
  /\ isAuthenticated
  /\ IF newNumSlots > 0 /\ newNumSlots <= MAX_SLOTS THEN
       LET noAvail == { i \in Slots : i < newNumSlots /\ <<"avail", i>> \notin preferences.keys }
           noPrice == { i \in Slots : i < newNumSlots /\ <<"price", i>> \notin preferences.keys }
       IN /\ activeSlots' = newNumSlots
          /\ slotAvailable' = [i \in Slots |-> IF i \in noAvail THEN TRUE ELSE slotAvailable[i]]
          /\ slotPrices' = [i \in Slots |-> IF i \in noPrice THEN 500 ELSE slotPrices[i]]
          /\ preferences' =
               [preferences EXCEPT
                  !.activeSlots = newNumSlots,
                  !.avail = [i \in Slots |-> IF i \in noAvail THEN TRUE ELSE @[i]],
                  !.price = [i \in Slots |-> IF i \in noPrice THEN 500 ELSE @[i]],
                  !.keys = @ \cup { <<"avail", i>> : i \in noAvail }
                             \cup { <<"price", i>> : i \in noPrice }]
          /\ displayNeedsUpdate' = TRUE
     ELSE UNCHANGED << activeSlots, slotAvailable, slotPrices, preferences,
                       displayNeedsUpdate >>
  /\ UNCHANGED << ret, key, currentSystemState, credit, slotLocked, selectedSlot,
                  keypadInputBuffer, enteredDigit, debounceVars, pressVars, dispenseJob, relayVars,
                  billInhibit, pulseVars, latchVars, stockNotices, otaVars, isAuthenticated, since,
                  jobDebits >>

\* ESP.restart(): setup() runs again on the store as it is.
restart ==
  /\ preferences' = preferences
  /\ pc' = "web"
  /\ ret' = "none"
  /\ key' = NoKey
  /\ currentSystemState' = "IDLE"
  /\ displayNeedsUpdate' = TRUE
  /\ credit' = preferences.credit
  /\ activeSlots' = IF preferences.activeSlots <= 0 \/ preferences.activeSlots > MAX_SLOTS
                    THEN MAX_SLOTS ELSE preferences.activeSlots
  /\ slotPrices' = preferences.price
  /\ slotAvailable' = preferences.avail
  /\ slotLocked' = preferences.locked
  /\ selectedSlot' = -1
  /\ keypadInputBuffer' = << >>
  /\ lastPhysicallyPressedKey' = NoKey
  /\ lastReturnedKey' = NoKey
  /\ dispenseJob' = [active |-> FALSE, slot |-> -1, relayActivated |-> FALSE]
  /\ expanderOutputStates' = {}
  /\ billInhibit' = "LOW"
  /\ coinPulseCount' = 0
  /\ billAcceptorPulseCount' = 0
  /\ almostEmptyNotificationSent' = FALSE
  /\ emptyNotificationSent' = FALSE
  /\ isAuthenticated' = FALSE
  /\ since' = [t \in Timers |-> IF t \in {"lastUserInteractionTime", "bootTime"}
                                 THEN 0 ELSE SinceCap(t)]
  /\ busLog' = << >>
  /\ relayCall' = NoCall
  /\ pulsesToProcess' = [coin |-> 0, bill |-> 0]
  /\ coinGroupIntact' = TRUE
  /\ coinUndrained' = 0
  /\ billEdge' = [seen |-> 0, counted |-> FALSE]
  /\ jobDebits' = 0
  /\ physicalKey' = NoKey
  /\ pressEvents' = 0
  /\ enteredDigit' = NoKey
  /\ stockNotices' = [seen |-> "high", almost |-> 0, empty |-> 0]
  /\ otaUpdateInProgress' = FALSE
  /\ uploadOpen' = FALSE

\* handleOTAFileUpload() for one event of the upload of a firmware image:
\* status is upload.status and ok is the result of the call of the Update
\* library made for it.  The events of one transfer come in order; one call
\* of server.handleClient() delivers one of them or several.
handleOTAFileUpload(status, ok) ==
  /\ Serving
  /\ IF status = "UPLOAD_FILE_START" THEN ~uploadOpen ELSE uploadOpen
  /\ IF isAuthenticated /\ status = "UPLOAD_FILE_END" /\ otaUpdateInProgress /\ ok
       THEN restart
     ELSE
       /\ pc' \in (IF pc = "web" THEN {"web", "timeouts"} ELSE {pc})
       /\ uploadOpen' = (status \in {"UPLOAD_FILE_START", "UPLOAD_FILE_WRITE"})
       /\ otaUpdateInProgress' =
            IF ~isAuthenticated THEN otaUpdateInProgress
            ELSE IF status = "UPLOAD_FILE_START" THEN ok
            ELSE IF status = "UPLOAD_FILE_WRITE" THEN otaUpdateInProgress /\ ok
            ELSE FALSE
       /\ UNCHANGED << ret, key, currentSystemState, displayNeedsUpdate, credit,
                       ledgerVars, preferences, selectedSlot, keypadInputBuffer,
                       enteredDigit, debounceVars, pressVars, dispenseJob, relayVars,
                       billInhibit, pulseVars, latchVars, stockNotices,
                       isAuthenticated, since, jobDebits >>

(***************************************************************************)
(* The specification.                                                      *)
(***************************************************************************)
AdminAmounts == { 30 }
AdminSlots == { 0, 1 }

\* The purchase path for the keys the keypad scan may sense: keypad, dispense
\* job, relay bus and the administrator's credit.  No coin or bill edge
\* arrives, so neither counter is ever drained.
PurchasePath(keys) ==
  \/ AdvanceTime
  \/ NoRequest
  \/ CheckTimeouts
  \/ \E k \in keys, probeAck \in BOOLEAN : processKeypad(k, probeAck)
  \/ EndErrorDwell
  \/ CheckCoin
  \/ CheckBill
  \/ \E onAck \in BOOLEAN, offAck \in BOOLEAN : processDispenseJob(onAck, offAck)
  \/ EndOfLoop
  \/ handleLogin
  \/ \E a \in AdminAmounts : handleAddCreditWeb(a)

\* Purchases of two slots that the administrator refills.
Next ==
  \/ PurchasePath({ NoKey, "1", "2", "#" })
  \/ \E i \in AdminSlots : handleRefillWeb(i)

Spec == Init /\ [][Next]_vars

\* Purchases of one slot that the administrator refills, locks and unlocks.
NextLock ==
  \/ PurchasePath({ NoKey, "1", "#" })
  \/ handleRefillWeb(0)
  \/ handleToggleSlotLockWeb(0)

SpecLock == Init /\ [][NextLock]_vars

\* Payments: coin and bill edges at any point of loop(), inserted while the
\* credit shown is at most MaxOpenCredit; a '#' with nothing selected raises
\* the error display.
NextPay ==
  \/ AdvanceTime
  \/ (credit <= MaxOpenCredit /\ coinAcceptorISR)
  \/ (credit <= MaxOpenCredit /\ billAcceptorISR)
  \/ NoRequest
  \/ CheckTimeouts
  \/ \E k \in { NoKey, "#" } : processKeypad(k, TRUE)
  \/ EndErrorDwell
  \/ CheckCoin
  \/ DrainCoin
  \/ CheckBill
  \/ DrainBill
  \/ processDispenseJob(TRUE, TRUE)
  \/ EndOfLoop

SpecPay == Init /\ [][NextPay]_vars

\* Everything that changes the credit: coins of up to MaxPaidCoinPulses and
\* bills of up to MaxPaidBillPulses pulses inserted between two iterations
\* while the credit shown is at most MaxOpenCredit, purchases of one slot,
\* and the administrator adding, removing and resetting credit.
CreditAmounts == { -20, 30 }

NextCredit ==
  \/ AdvanceTime
  \/ (/\ pc = "web" /\ credit <= MaxOpenCredit /\ billAcceptorPulseCount = 0
      /\ coinPulseCount < MaxPaidCoinPulses /\ coinAcceptorISR)
  \/ (/\ pc = "web" /\ credit <= MaxOpenCredit /\ coinPulseCount = 0
      /\ billAcceptorPulseCount < MaxPaidBillPulses /\ billAcceptorISR)
  \/ NoRequest
  \/ CheckTimeouts
  \/ \E k \in { NoKey, "1", "#" } : processKeypad(k, TRUE)
  \/ EndErrorDwell
  \/ CheckCoin
  \/ DrainCoin
  \/ CheckBill
  \/ DrainBill
  \/ processDispenseJob(TRUE, TRUE)
  \/ EndOfLoop
  \/ handleLogin
  \/ handleResetCreditWeb
  \/ \E a \in CreditAmounts : handleAddCreditWeb(a)

SpecCredit == Init /\ [][NextCredit]_vars

\* The keypad during purchases: a valid and an invalid digit, '#' and '*',
\* with one slot that is bought, refilled and locked.
KeypadKeys == { NoKey, "1", "6", "#", "*" }

NextKeys ==
  \/ PurchasePath(KeypadKeys)
  \/ handleRefillWeb(0)
  \/ handleToggleSlotLockWeb(0)

SpecKeys == Init /\ [][NextKeys]_vars

\* Slot entry: digits that are valid alone, invalid alone and the first of a
\* two-digit number, for the stored count of 2 slots and after the
\* administrator has set it to 9 or to 16.  With no credit a '#' is rejected.
DigitKeys == { NoKey, "0", "1", "6", "9", "#", "*" }
SlotCounts == { 9, 16 }

NextDigits ==
  \/ AdvanceTime
  \/ NoRequest
  \/ CheckTimeouts
  \/ \E k \in DigitKeys : processKeypad(k, TRUE)
  \/ EndErrorDwell
  \/ CheckCoin
  \/ CheckBill
  \/ processDispenseJob(TRUE, TRUE)
  \/ EndOfLoop
  \/ handleLogin
  \/ \E n \in SlotCounts : handleUpdateSlotsWeb(n)

SpecDigits == Init /\ [][NextDigits]_vars

\* Single presses of a key: the scan senses the key the user holds.  With no
\* credit a '#' raises the error display.
PressedKeys == { "1", "#" }

NextPress ==
  \/ AdvanceTime
  \/ \E k \in PressedKeys : PressKey(k)
  \/ ReleaseKey
  \/ NoRequest
  \/ CheckTimeouts
  \/ processKeypad(physicalKey, TRUE)
  \/ EndErrorDwell
  \/ CheckCoin
  \/ CheckBill
  \/ processDispenseJob(TRUE, TRUE)
  \/ EndOfLoop

SpecPress == Init /\ [][NextPress]_vars

\* Purchases and refills of two slots after a boot that finds either slot
\* stored as available or as sold: availability is kept in the store, the
\* two latches are not.
StockStores ==
  { [BootStore EXCEPT !.avail = [i \in Slots |-> IF i \in AdminSlots THEN a[i] ELSE TRUE]]
      : a \in [AdminSlots -> BOOLEAN] }

InitStock == \E store \in StockStores : setup(store)

NextStock ==
  \/ PurchasePath({ NoKey, "1", "2", "#" })
  \/ \E i \in AdminSlots : handleRefillWeb(i)

SpecStock == InitStock /\ [][NextStock]_vars

\* Purchases of one slot while the administrator uploads firmware images.
UploadStatus == { "UPLOAD_FILE_START", "UPLOAD_FILE_WRITE", "UPLOAD_FILE_END",
                  "UPLOAD_FILE_ABORTED" }

NextOta ==
  \/ PurchasePath({ NoKey, "1", "#" })
  \/ \E status \in UploadStatus, ok \in BOOLEAN : handleOTAFileUpload(status, ok)

SpecOta == Init /\ [][NextOta]_vars

\* The relay driver alone: controlSlotRelay() called with slots at and beyond
\* the ends of both banks, as the purchase path and the relay tests of the web
\* interface (lines 1148, 1197, 1491, 1505) call it, MaxRelayCalls
\* transmissions long.
RelaySlots == { -1, 0, 7, 8, 15, 16 }

controlSlotRelay(slot, activate, ack) ==
  /\ Serving
  /\ Len(busLog) < MaxRelayCalls
  /\ relayCall' = RelayCall(slot, activate, ack)
  /\ IF slot < 0 \/ slot >= MAX_SLOTS
       THEN UNCHANGED << expanderOutputStates, busLog, since >>
     ELSE /\ expanderOutputStates' = RelayMask(expanderOutputStates, slot, activate)
          /\ busLog' = Append(busLog, RelayWrite(expanderOutputStates', slot, activate, ack))
          /\ since' = IF ack THEN Stamp(since, {"lastRelayChangeTime"}) ELSE since
  /\ UNCHANGED << pc, ret, key, currentSystemState, displayNeedsUpdate, credit,
                  ledgerVars, preferences, selectedSlot, keypadInputBuffer, enteredDigit,
                  debounceVars, pressVars, dispenseJob, pulsesToProcess, billInhibit,
                  pulseVars, latchVars, stockNotices, otaVars, isAuthenticated, jobDebits >>

NextRelay ==
  \E slot \in RelaySlots, activate \in BOOLEAN, ack \in BOOLEAN :
     controlSlotRelay(slot, activate, ack)

SpecRelay == Init /\ [][NextRelay]_vars

\* The administrator at work during purchases of slot 2: refills, lock
\* toggles, price changes and changes of the number of active slots; the
\* relay board answers the probe and may leave the ON write unacknowledged.
LedgerSlots == { 1 }
LedgerPrices == { 0, 30 }
LedgerCounts == { 1, 3 }

NextLedger ==
  \/ AdvanceTime
  \/ NoRequest
  \/ CheckTimeouts
  \/ \E k \in { NoKey, "2", "#" } : processKeypad(k, TRUE)
  \/ EndErrorDwell
  \/ CheckCoin
  \/ CheckBill
  \/ \E onAck \in BOOLEAN : processDispenseJob(onAck, TRUE)
  \/ EndOfLoop
  \/ handleLogin
  \/ \E a \in AdminAmounts : handleAddCreditWeb(a)
  \/ \E i \in LedgerSlots : handleRefillWeb(i)
  \/ handleRefillAllWeb
  \/ \E i \in LedgerSlots : handleToggleSlotLockWeb(i)
  \/ \E i \in LedgerSlots, p \in LedgerPrices : handleUpdatePriceWeb(i, p)
  \/ \E n \in LedgerCounts : handleUpdateSlotsWeb(n)

SpecLedger == Init /\ [][NextLedger]_vars

\* Refills during purchases of two slots: the administrator refills slot 2
\* alone, refills all slots, and locks and unlocks slot 2.
NextRefill ==
  \/ PurchasePath({ NoKey, "1", "2", "#" })
  \/ handleRefillWeb(1)
  \/ handleRefillAllWeb
  \/ handleToggleSlotLockWeb(1)

SpecRefill == Init /\ [][NextRefill]_vars

\* Coins inserted around an error display: while coin edges are pending,
\* time passes only inside the busy-wait of the error display that a '#' with
\* nothing selected raises, so a pending count is drained only after it.
NextDwell ==
  \/ ((pc = "errorDwell" \/ coinPulseCount = 0) /\ AdvanceTime)
  \/ (credit <= MaxOpenCredit /\ coinAcceptorISR)
  \/ NoRequest
  \/ CheckTimeouts
  \/ \E k \in { NoKey, "#" } : processKeypad(k, TRUE)
  \/ EndErrorDwell
  \/ CheckCoin
  \/ DrainCoin
  \/ CheckBill
  \/ processDispenseJob(TRUE, TRUE)
  \/ EndOfLoop

SpecDwell == Init /\ [][NextDwell]_vars

\* Purchases of one slot under fair scheduling: loop() keeps iterating (an
\* error display ends once its time is up) and, with the delay(10) of every
\* iteration and the busy-wait of the error display, time keeps passing.
\* The relay board acknowledges or not, write by write.
Tick ==
  \/ NoRequest
  \/ CheckTimeouts
  \/ \E k \in { NoKey, "1", "#" }, probeAck \in BOOLEAN : processKeypad(k, probeAck)
  \/ EndErrorDwell
  \/ CheckCoin
  \/ CheckBill
  \/ \E onAck \in BOOLEAN, offAck \in BOOLEAN : processDispenseJob(onAck, offAck)
  \/ EndOfLoop

NextLive ==
  \/ AdvanceTime
  \/ Tick
  \/ handleLogin
  \/ \E a \in AdminAmounts : handleAddCreditWeb(a)
  \/ handleRefillWeb(0)

SpecLive ==
  Init /\ [][NextLive]_vars /\ WF_vars(Tick) /\ SF_vars(AdvanceTime)

(***************************************************************************)
(* Properties of the purchase path.                                        *)
(***************************************************************************)
\* The keypad step is handling a '#', or the error display that step raised
\* is ending.
HashHandled ==
  \/ pc = "keypad" /\ key' = "#"
  \/ pc = "errorDwell" /\ ret \in {"hash", "hashSelection"} /\ key = "#"
       /\ (pc' # pc \/ ret' # ret)

\* The transmission this step adds to the bus log is e.
Transmits(e) == Len(busLog') = Len(busLog) + 1 /\ busLog'[Len(busLog')] = e

\* C1 - Mutual exclusion: while a dispense job is active, handling a '#' (the
\* keypad step that reads it and the end of the error display it may raise)
\* creates no job and leaves credit, the active job (slot, relayActivated,
\* start time) and every slot's price, availability and lock unchanged.
C1_MutualExclusion ==
  [][ (dispenseJob.active /\ HashHandled)
        => /\ dispenseJob' = dispenseJob
           /\ jobDebits' = jobDebits
           /\ since'["startTime"] = since["startTime"]
           /\ credit' = credit
           /\ slotPrices' = slotPrices
           /\ slotAvailable' = slotAvailable
           /\ slotLocked' = slotLocked ]_vars

\* A '#' for another slot, available and affordable, has just been handled
\* while the relay of the active job is on.
C1_Witness ==
  /\ pc = "coin" /\ key = "#"
  /\ dispenseJob.active /\ dispenseJob.relayActivated
  /\ selectedSlot # -1 /\ selectedSlot # dispenseJob.slot
  /\ ~slotLocked[selectedSlot] /\ slotAvailable[selectedSlot]
  /\ credit >= slotPrices[selectedSlot]

\* C2 (as amended) - No double-debit: a dispense job is debited exactly once,
\* by exactly the price of its slot, in the tick that switches its relay on,
\* and not at all when that relay write is not acknowledged; the ticks after
\* the activation tick never debit again, however long the job stays active.
C2_DebitOncePerActivatedJob ==
  /\ [](jobDebits = IF dispenseJob.relayActivated THEN 1 ELSE 0)
  /\ [][ jobDebits' = jobDebits + 1
           => credit' = credit - slotPrices[dispenseJob.slot] ]_vars
  /\ [][ (pc = "dispense" /\ dispenseJob.relayActivated) => credit' = credit ]_vars

\* A job debited once is still active in a tick after its activation tick.
C2_Witness ==
  /\ pc = "display"
  /\ dispenseJob.active /\ dispenseJob.relayActivated
  /\ since["startTime"] >= 1
  /\ jobDebits = 1

\* C2 (as stated) - every dispense job has been debited exactly once when it
\* is cleared.
C2_ExactlyOncePerJob ==
  (~dispenseJob.active /\ dispenseJob.slot # -1) => jobDebits = 1

\* C3 - Actuator failure during activation: when the write that switches the
\* job's relay on is not acknowledged, nothing is debited and no availability
\* changes, in memory or in the store, from the creation of the job to the
\* end of the failed step; the error is shown; and when the error display
\* ends the job is inactive and the bill acceptor is enabled again, credit
\* and availability still untouched.
C3_ActivationFailure ==
  /\ [][ (pc \in {"coin", "bill", "dispense"}
            /\ dispenseJob.active /\ ~dispenseJob.relayActivated
            /\ ~dispenseJob'.relayActivated)
           => /\ credit' = credit
              /\ slotAvailable' = slotAvailable
              /\ preferences' = preferences ]_vars
  /\ [][ (pc = "dispense" /\ dispenseJob.active /\ ~dispenseJob.relayActivated
            /\ Len(busLog') > Len(busLog)
            /\ busLog'[Len(busLog) + 1].op = "on"
            /\ ~busLog'[Len(busLog) + 1].ack)
           => /\ credit' = credit
              /\ slotAvailable' = slotAvailable
              /\ preferences' = preferences
              /\ jobDebits' = 0
              /\ currentSystemState' = "ERROR_DISPLAY"
              /\ pc' = "errorDwell" /\ ret' = "dispense" ]_vars
  /\ [][ (pc = "errorDwell" /\ ret = "dispense" /\ pc' # "errorDwell")
           => /\ ~dispenseJob'.active
              /\ billInhibit' = "LOW"
              /\ credit' = credit
              /\ slotAvailable' = slotAvailable
              /\ preferences' = preferences
              /\ jobDebits' = 0 ]_vars

\* The error display of a failed activation has ended: the job is cleared
\* and the bill acceptor enabled.
C3_Witness ==
  /\ pc = "display"
  /\ busLog # << >> /\ busLog[Len(busLog)].op = "on" /\ ~busLog[Len(busLog)].ack
  /\ ~dispenseJob.active /\ ~dispenseJob.relayActivated
  /\ billInhibit = "LOW"

\* C4 - Bus health gate: when the relay board does not answer the probe made
\* at confirmation, no dispense job is created, the error is shown, and
\* credit, availability (in memory and in the store) and the relay mask are
\* unchanged.
C4_BusHealthGate ==
  [][ (pc = "keypad" /\ Transmits(RelayProbe(FALSE)))
        => /\ dispenseJob' = dispenseJob
           /\ ~dispenseJob'.active
           /\ credit' = credit
           /\ slotAvailable' = slotAvailable
           /\ preferences' = preferences
           /\ expanderOutputStates' = expanderOutputStates
           /\ currentSystemState' = "ERROR_DISPLAY"
           /\ pc' = "errorDwell" ]_vars

\* The error of an unanswered probe is on display, for a slot that could
\* have been bought.
C4_Witness ==
  /\ pc = "errorDwell" /\ key = "#"
  /\ busLog = << RelayProbe(FALSE) >>
  /\ selectedSlot # -1 /\ PurchaseDecision(selectedSlot) = "buy"
  /\ ~dispenseJob.active

\* C9 - Never double-dispense: every relay that an acknowledged activation
\* write of the purchase path switches on belongs to a slot that is available
\* at that moment and whose availability is cleared in the same step.
C9_OnlyAvailableSlotActivated ==
  [][ (pc = "dispense" /\ Len(busLog') > Len(busLog)
         /\ busLog'[Len(busLog) + 1].op = "on" /\ busLog'[Len(busLog) + 1].ack)
        => \A i \in busLog'[Len(busLog) + 1].data :
             slotAvailable[i] /\ ~slotAvailable'[i] ]_vars

\* C10 - A locked slot is never purchasable: a '#' for a selected slot whose
\* lock flag is set creates no dispense job, transmits nothing to the relay
\* board, changes no relay bit and debits nothing, whatever the slot's
\* availability and the credit.
C10_LockedNeverPurchasable ==
  [][ (pc = "keypad" /\ key' = "#" /\ selectedSlot' # -1 /\ slotLocked[selectedSlot'])
        => /\ dispenseJob' = dispenseJob
           /\ jobDebits' = jobDebits
           /\ busLog' = busLog
           /\ expanderOutputStates' = expanderOutputStates
           /\ credit' = credit
           /\ preferences' = preferences
           /\ slotAvailable' = slotAvailable
           /\ pc' = "errorDwell" ]_vars

\* The error of a '#' for a locked slot is on display, the slot being
\* available and affordable and no job active.
C10_Witness ==
  /\ pc = "errorDwell" /\ key = "#" /\ ret = "hash"
  /\ selectedSlot # -1 /\ slotLocked[selectedSlot]
  /\ slotAvailable[selectedSlot] /\ credit >= slotPrices[selectedSlot]
  /\ ~dispenseJob.active

(***************************************************************************)
(* Properties of the payment channels.                                     *)
(***************************************************************************)
\* C7 - Pulse grouping: every drain of the coin counter takes exactly one
\* group, that is N >= 1 edges none of which came after a quiet gap
\* exceeding the grouping timeout, and credits pulseValues[N] cents for it
\* (nothing when N is outside 1..6 or maps to 0).
C7_OneDrainPerGroup ==
  [][ (pc = "coinDrain" /\ pc' = "bill")
        => /\ coinGroupIntact
           /\ coinPulseCount >= 1
           /\ credit' = credit + (IF coinPulseCount \in 1..6
                                  THEN pulseValues[coinPulseCount + 1] ELSE 0) ]_vars

\* C8 - Noise tolerance: a drain of a coin or bill pulse count that is outside
\* its table or maps to 0 resets the counter to 0 and leaves credit, the
\* stored credit, the system state, the last-user-interaction stamp, the
\* selection and the dispense job unchanged.
C8_NoiseTolerance ==
  [][ (\/ pc = "coinDrain" /\ pc' = "bill" /\ CoinValueCents(coinPulseCount) = 0
       \/ pc = "billDrain" /\ pc' = "dispense"
            /\ BillValueCents(billAcceptorPulseCount) = 0)
        => /\ IF pc = "coinDrain" THEN coinPulseCount' = 0
                                  ELSE billAcceptorPulseCount' = 0
           /\ credit' = credit
           /\ preferences' = preferences
           /\ currentSystemState' = currentSystemState
           /\ since'["lastUserInteractionTime"] = since["lastUserInteractionTime"]
           /\ selectedSlot' = selectedSlot
           /\ keypadInputBuffer' = keypadInputBuffer
           /\ dispenseJob' = dispenseJob
           /\ jobDebits' = jobDebits ]_vars

\* In one iteration a coin count and then a bill count outside their tables
\* have been drained: both counters are 0 and nothing is credited.
C8_Witness ==
  /\ pc = "dispense"
  /\ pulsesToProcess.coin >= Len(pulseValues)
  /\ pulsesToProcess.bill >= Len(billValues)
  /\ coinPulseCount = 0 /\ billAcceptorPulseCount = 0
  /\ credit = 0 /\ preferences.credit = 0

(***************************************************************************)
(* Properties of the credit.                                               *)
(***************************************************************************)
\* C5 - Credit is non-negative in every reachable state, after any sequence
\* of payments, purchases, administrative adjustments of any sign and resets.
C5_CreditNonNegative == credit >= 0

\* C6 - Credit durability: at the start of every iteration of loop() the
\* credit in the store equals the credit in memory, so that setup() after a
\* reboot at that point restores exactly the current credit.
C6_CreditDurable == pc = "web" => preferences.credit = credit

\* An iteration starts after a bill has been credited and a purchase debited:
\* the store holds the credit that is left.
C6_Witness ==
  /\ pc = "web"
  /\ ~slotAvailable[0]
  /\ credit = BillValueCents(4) - slotPrices[0]
  /\ preferences.credit = credit

(***************************************************************************)
(* Properties of the keypad and of the dispense job's life.                *)
(***************************************************************************)
\* The slot a '#' read by this keypad step confirms: the selection after the
\* digits still in the buffer have been resolved.
ConfirmedSlot ==
  processKeypadSelection(keypadInputBuffer, selectedSlot, activeSlots).sel

\* This keypad step reads a '#' that the claim calls rejected: nothing is
\* selected, or the slot is locked, empty or dearer than the credit.
RejectedHash ==
  /\ pc = "keypad" /\ key' = "#"
  /\ \/ ConfirmedSlot = -1
     \/ slotLocked[ConfirmedSlot]
     \/ ~slotAvailable[ConfirmedSlot]
     \/ credit < slotPrices[ConfirmedSlot]

\* This keypad step reads a second digit that makes a number outside
\* 1..activeSlots.
RejectedDigits ==
  /\ pc = "keypad" /\ IsDigit(key')
  /\ Len(keypadInputBuffer) = 1
  /\ LET slotNum == toInt(Append(keypadInputBuffer, key'))
     IN slotNum < 1 \/ slotNum > activeSlots

\* The error display raised by the keypad step ends in this step.
RejectionEnds ==
  /\ pc = "errorDwell" /\ ret \in {"hash", "digit"} /\ pc' # "errorDwell"

\* Credit, every slot's price, availability and lock, the job and the relay
\* mask are the same after this step.
NothingMutated ==
  UNCHANGED << credit, slotPrices, slotAvailable, slotLocked, dispenseJob,
               expanderOutputStates >>

\* C11 - User-facing rejections mutate nothing: a '#' rejected because nothing
\* is selected or the slot is locked, empty or dearer than the credit, and a
\* second digit that makes an invalid slot number, raise the error display
\* (state ERROR_DISPLAY during the dwell, IDLE when it ends) and leave credit,
\* every slot's price, availability and lock, the dispense job and the relay
\* mask unchanged.
C11_RejectionsMutateNothing ==
  /\ [][ (RejectedHash \/ RejectedDigits) =>
           /\ pc' = "errorDwell" /\ currentSystemState' = "ERROR_DISPLAY"
           /\ NothingMutated ]_vars
  /\ [](pc = "errorDwell" => currentSystemState = "ERROR_DISPLAY")
  /\ [][ RejectionEnds => currentSystemState' = "IDLE" /\ NothingMutated ]_vars

\* The error display of a '#' on a locked slot that is in stock and paid for
\* has run its dwell.
C11_Witness ==
  /\ pc = "errorDwell" /\ ret = "hash" /\ key = "#"
  /\ since["errorTime"] >= ERROR_DISPLAY_TIME
  /\ selectedSlot = 0 /\ slotLocked[0] /\ slotAvailable[0]
  /\ credit >= slotPrices[0]
  /\ currentSystemState = "ERROR_DISPLAY"

\* This keypad step reads a '#' for a slot that can be bought: unlocked, in
\* stock, paid for, with no job active.
AcceptedHash ==
  /\ pc = "keypad" /\ key' = "#"
  /\ ConfirmedSlot # -1
  /\ ~slotLocked[ConfirmedSlot] /\ slotAvailable[ConfirmedSlot]
  /\ credit >= slotPrices[ConfirmedSlot]
  /\ ~dispenseJob.active

\* The dispense step of the tick that finds the job with its relay still off.
ActivationStep == pc = "dispense" /\ dispenseJob.active /\ ~dispenseJob.relayActivated

\* The dispense step of a later tick of a job whose relay is on, before and
\* from the moment the open duration has elapsed.
OpenStep ==
  /\ pc = "dispense" /\ dispenseJob.active /\ dispenseJob.relayActivated
  /\ since["startTime"] < DISPENSE_RELAY_ON_TIME

CloseStep ==
  /\ pc = "dispense" /\ dispenseJob.active /\ dispenseJob.relayActivated
  /\ since["startTime"] >= DISPENSE_RELAY_ON_TIME

\* C12 - Successful purchase: a '#' for a selected slot that is unlocked and in
\* stock, with credit >= price, no job active and the relay board answering
\* the probe, creates the job; when the relay ON write is acknowledged, credit
\* becomes credit - price, the slot becomes unavailable and its relay is
\* commanded on; the relay stays commanded on until the open duration has
\* elapsed, and then it is commanded off and the job is cleared.
C12_SuccessfulPurchase ==
  /\ [][ (AcceptedHash /\ ~Transmits(RelayProbe(FALSE)))
           => dispenseJob' = [active |-> TRUE, slot |-> ConfirmedSlot,
                              relayActivated |-> FALSE] ]_vars
  /\ [][ (ActivationStep /\ busLog' # busLog /\ busLog'[Len(busLog')].ack)
           => LET slot == dispenseJob.slot IN
              /\ credit' = credit - slotPrices[slot]
              /\ credit' >= 0
              /\ slotAvailable' = [slotAvailable EXCEPT ![slot] = FALSE]
              /\ Len(busLog') = Len(busLog) + 1
              /\ LET e == busLog'[Len(busLog')]
                 IN e.op = "on" /\ e.slot = slot /\ slot \in e.data /\ e.ack
              /\ dispenseJob' = [dispenseJob EXCEPT !.relayActivated = TRUE] ]_vars
  /\ [][ OpenStep => busLog' = busLog /\ dispenseJob' = dispenseJob ]_vars
  /\ [][ CloseStep
           => /\ ~dispenseJob'.active
              /\ Len(busLog') = Len(busLog) + 1
              /\ busLog'[Len(busLog')].op = "off"
              /\ busLog'[Len(busLog')].slot = dispenseJob.slot
              /\ dispenseJob.slot \notin busLog'[Len(busLog')].data ]_vars

\* The purchase of the slot whose price is the whole credit is complete: the
\* credit is 0, the slot is out of stock, the relay has just been commanded
\* off and the job is cleared.
C12_Witness ==
  /\ pc = "display"
  /\ ~dispenseJob.active /\ dispenseJob.relayActivated /\ jobDebits = 1
  /\ dispenseJob.slot = 1 /\ ~slotAvailable[1] /\ slotAvailable[0]
  /\ credit = 0 /\ preferences.credit = 0
  /\ Len(busLog) = 1 /\ busLog[1].op = "off" /\ busLog[1].ack
  /\ 1 \notin expanderOutputStates

\* C13 - Hard dispense deadline: in the first tick that finds a job with its
\* relay on and the open duration elapsed, however late that tick runs, the
\* relay is commanded off, the bill acceptor is enabled again, the job is
\* cleared and selection, buffer and display go back to idle, whether or not
\* the relay board acknowledges the OFF write.
C13_HardDispenseDeadline ==
  [][ CloseStep
        => /\ Len(busLog') = Len(busLog) + 1
           /\ LET e == busLog'[Len(busLog')]
              IN e.op = "off" /\ e.slot = dispenseJob.slot /\ e.slot \notin e.data
           /\ billInhibit' = "LOW"
           /\ dispenseJob' = [dispenseJob EXCEPT !.active = FALSE]
           /\ selectedSlot' = -1 /\ keypadInputBuffer' = << >>
           /\ currentSystemState' = "IDLE" /\ displayNeedsUpdate'
           /\ pc' = "display" ]_vars

\* A job whose relay was on has been cleared by a tick whose OFF write the
\* relay board did not acknowledge.
C13_Witness ==
  /\ pc = "display"
  /\ ~dispenseJob.active /\ dispenseJob.relayActivated
  /\ Len(busLog) = 1 /\ busLog[1].op = "off" /\ ~busLog[1].ack
  /\ billInhibit = "LOW" /\ selectedSlot = -1 /\ currentSystemState = "IDLE"

\* A step the user causes: the two soft timeouts, the keypad step, and the
\* end of an error display raised by the keypad step.
UserStep ==
  \/ pc \in {"timeouts", "keypad"}
  \/ pc = "errorDwell" /\ ret \in {"hash", "digit", "hashSelection"}

\* C14 - A dispense job cannot be cancelled by the user: while a job is active,
\* no key ('*', '#', digit), no display-inactivity timeout and no
\* slot-selection timeout changes the job or commands a relay off; a job
\* becomes inactive only in the tick that finds its open duration elapsed or
\* at the end of the error display of a failed activation.
C14_NoUserCancel ==
  /\ [][ (dispenseJob.active /\ UserStep)
           => /\ dispenseJob' = dispenseJob
              /\ expanderOutputStates' = expanderOutputStates
              /\ \A i \in 1..Len(busLog') : i > Len(busLog) => busLog'[i].op # "off"
         ]_vars
  /\ [][ (dispenseJob.active /\ ~dispenseJob'.active)
           => \/ CloseStep
              \/ pc = "errorDwell" /\ ret = "dispense" /\ ~dispenseJob.relayActivated
         ]_vars

\* A '*' has just been handled while the relay of the active job is on: the
\* selection is cleared and the display idle, the job goes on.
C14_Witness ==
  /\ pc = "coin" /\ key = "*"
  /\ dispenseJob.active /\ dispenseJob.relayActivated
  /\ dispenseJob.slot \in expanderOutputStates
  /\ selectedSlot = -1 /\ currentSystemState = "IDLE"

\* C15 - Key one-shot: a key held down produces exactly one key event for
\* that press however many ticks it is held, and a release followed by a new
\* press of the same key produces exactly one new event: no press ever has
\* more than one event, and a press has its event once a scan has sensed the
\* key for the second time with the debounce period elapsed.
C15_KeyOneShot ==
  /\ [](pressEvents <= 1)
  /\ [][ (/\ pc = "keypad" /\ physicalKey # NoKey
          /\ lastPhysicallyPressedKey = physicalKey
          /\ since["lastKeyPressTime"] > KEYPAD_DEBOUNCE_PERIOD)
           => pressEvents' = 1 ]_vars

(***************************************************************************)
(* Properties of the slot entry.                                           *)
(***************************************************************************)
\* This keypad step reads digit b right after digit a, the first digit of an
\* entry, where the slot count needs two digits and ab is no slot number.
InvalidSecondDigit ==
  /\ pc = "keypad" /\ IsDigit(key')
  /\ enteredDigit # NoKey
  /\ activeSlots >= 10
  /\ LET slotNum == toInt(<< enteredDigit, key' >>)
     IN slotNum < 1 \/ slotNum > activeSlots

\* C16 - Invalid two-digit entry: whenever two digits entered in succession
\* do not denote a slot number in 1..activeSlots (as '9', '9' with 16 active
\* slots), the error display is raised, and when it ends no slot is selected
\* and the digit buffer is empty.
C16_InvalidTwoDigitEntry ==
  /\ [][ InvalidSecondDigit => pc' = "errorDwell" /\ ret' = "digit" ]_vars
  /\ [][ (pc = "errorDwell" /\ ret = "digit" /\ pc' # "errorDwell")
           => selectedSlot' = -1 /\ keypadInputBuffer' = << >> ]_vars

\* The digit this keypad step reads, and the number the buffer denotes once
\* the digit is appended to it.
DigitRead == pc = "keypad" /\ IsDigit(key')
NumberEntered == toInt(Append(keypadInputBuffer, key'))

\* C17 - Two-digit selection: with at least 10 active slots and an empty
\* buffer, digit a then digit b with ab in 10..activeSlots give, after a, the
\* provisional selection of slot a with a kept in the buffer and, after b,
\* the selection of slot ab with the buffer cleared.
C17_TwoDigitSelection ==
  /\ [][ (/\ DigitRead /\ activeSlots >= 10 /\ keypadInputBuffer = << >>
          /\ \E i \in 1..10 : toInt(<< key', Digits[i] >>) \in 10..activeSlots)
           => /\ selectedSlot' = DigitVal(key') - 1
              /\ keypadInputBuffer' = << key' >>
              /\ pc' = "coin" ]_vars
  /\ [][ (/\ DigitRead /\ activeSlots >= 10 /\ Len(keypadInputBuffer) = 1
          /\ NumberEntered \in 10..activeSlots)
           => /\ selectedSlot' = NumberEntered - 1
              /\ keypadInputBuffer' = << >>
              /\ pc' = "coin" ]_vars

\* '1' then '6' with 16 active slots: slot 16 is selected, the buffer is empty.
C17_Witness ==
  /\ pc = "coin" /\ key = "6" /\ enteredDigit = NoKey
  /\ activeSlots = 16
  /\ selectedSlot = 15 /\ keypadInputBuffer = << >>
  /\ currentSystemState = "USER_INTERACTION"

\* The buffer processKeypadSelection() parses in this keypad step: a buffer
\* already holding two characters is emptied before the digit is appended.
BufferParsed ==
  Append(IF Len(keypadInputBuffer) >= 2 THEN << >> ELSE keypadInputBuffer, key')

\* C18 - Finality rule: after a digit that yields a valid slot number the
\* buffer is cleared if and only if the buffer holds two digits, or fewer than
\* 10 slots are active, or the single digit d is greater than activeSlots
\* div 10; otherwise the buffer keeps the single digit.
C18_FinalityRule ==
  [][ (DigitRead /\ toInt(BufferParsed) \in 1..activeSlots)
        => LET final == \/ Len(BufferParsed) = 2
                        \/ activeSlots < 10
                        \/ Len(BufferParsed) = 1
                             /\ DigitVal(key') > activeSlots \div 10
           IN /\ selectedSlot' = toInt(BufferParsed) - 1
              /\ (keypadInputBuffer' = << >>) <=> final
              /\ ~final => keypadInputBuffer' = << key' >> ]_vars

\* A single '9' with 16 active slots has selected slot 9 and is final: the
\* buffer is empty after one digit.
C18_Witness ==
  /\ pc = "coin" /\ key = "9" /\ enteredDigit = "9"
  /\ activeSlots = 16
  /\ selectedSlot = 8 /\ keypadInputBuffer = << >>

\* C19 - The '*' key cancels unconditionally: after a '*' key event, whatever
\* the selection, the buffer and the system state were, no slot is selected,
\* the digit buffer is empty and the state is IDLE, while credit, every
\* slot's price, availability and lock and the dispense job are unchanged.
C19_StarCancels ==
  [][ (pc = "keypad" /\ key' = "*")
        => /\ selectedSlot' = -1
           /\ keypadInputBuffer' = << >>
           /\ currentSystemState' = "IDLE"
           /\ pc' = "coin"
           /\ UNCHANGED << credit, slotPrices, slotAvailable, slotLocked,
                           activeSlots, dispenseJob, expanderOutputStates,
                           preferences >> ]_vars

\* A '*' has been handled before the selection made last could time out,
\* with credit left and a job active: nothing is selected, the display is idle.
C19_Witness ==
  /\ pc = "coin" /\ key = "*"
  /\ since["slotSelectedTime"] <= SLOT_SELECTION_TIMEOUT
  /\ selectedSlot = -1 /\ keypadInputBuffer = << >>
  /\ currentSystemState = "IDLE"
  /\ credit > 0 /\ dispenseJob.active

\* C20 (as stated): stock notification hysteresis.  With the threshold
\* almostEmptyThreshold and both alerts enabled, over purchases and refills,
\* once a stock check has seen the count of available unlocked slots at or
\* below the threshold, the "almost empty" message has been sent exactly once
\* and the "empty" message at most once until a check sees the count above
\* the threshold; after such a check both latches are false.
C20_StockNotificationHysteresis ==
  /\ stockNotices.seen # "high" =>
        /\ stockNotices.almost = 1
        /\ stockNotices.empty <= 1
  /\ stockNotices.seen = "high" =>
        /\ ~almostEmptyNotificationSent
        /\ ~emptyNotificationSent

\* C20 (amended): while the checks see the count at or below the threshold,
\* the "almost empty" message is sent exactly once and the "empty" message at
\* most once when the first of these checks saw at least one slot; when the
\* first of them saw none, the "empty" message is sent once and the "almost
\* empty" message not at all, its latch being set without a message.  A
\* check that sees the count above the threshold leaves both latches false.
C20_HysteresisFromFirstSight ==
  /\ stockNotices.seen = "low" =>
        /\ stockNotices.almost = 1
        /\ stockNotices.empty <= 1
        /\ almostEmptyNotificationSent
  /\ stockNotices.seen = "zero" =>
        /\ stockNotices.almost = 0
        /\ stockNotices.empty = 1
        /\ almostEmptyNotificationSent
        /\ emptyNotificationSent
  /\ stockNotices.seen = "high" =>
        /\ ~almostEmptyNotificationSent
        /\ ~emptyNotificationSent

\* Checks have seen one slot, then none, then one again after a refill: each
\* message has been sent once and both latches are set.
C20_Witness ==
  /\ stockNotices = [seen |-> "low", almost |-> 1, empty |-> 1]
  /\ countAvailableSlots(slotAvailable, slotLocked, activeSlots) = 1
  /\ almostEmptyNotificationSent /\ emptyNotificationSent

\* C21 - Maintenance suspension: from the start of a firmware upload, for as
\* long as the update is in progress, the system state is OTA_UPDATE and the
\* main loop is at none of its keypad, coin, bill and dispense steps; the
\* state is OTA_UPDATE at no other time.
C21_MaintenanceSuspension ==
  /\ otaUpdateInProgress =>
        /\ currentSystemState = "OTA_UPDATE"
        /\ pc \in {"web", "timeouts", "display", "errorDwell"}
  /\ currentSystemState = "OTA_UPDATE" => otaUpdateInProgress

\* C22 - Bill acceptor inhibited for the whole dispense: at the end of every
\* iteration of loop() in which a dispense job is active with its relay
\* switched on, the bill inhibit line is HIGH.
C22_InhibitedWhileDispensing ==
  (pc \in {"display", "web"} /\ dispenseJob.active /\ dispenseJob.relayActivated)
    => billInhibit = "HIGH"

\* The quiet period after the last acknowledged relay write is running.
RelayQuiet == since["lastRelayChangeTime"] < RELAY_QUIET_TIME

\* C23 - Post-actuation quiet period: during the quiet period after an
\* acknowledged relay write (ON or OFF) the bill inhibit line is HIGH, no bill
\* pulses are credited, and no counted bill edge is thrown away.
C23_QuietPeriod ==
  /\ [](RelayQuiet => billInhibit = "HIGH")
  /\ [][ (RelayQuiet /\ pc \in {"bill", "billDrain"})
           => /\ credit' = credit
              /\ billAcceptorPulseCount' = billAcceptorPulseCount ]_vars

\* C24 - Dispense liveness: while loop() keeps iterating and time keeps
\* passing, every dispense job that is active becomes inactive, whether the
\* relay board acknowledges the relay writes or not.
C24_DispenseLiveness == dispenseJob.active ~> ~dispenseJob.active

\* A job has just ended although the relay OFF write was not acknowledged.
C24_Witness ==
  /\ pc = "display" /\ ~dispenseJob.active /\ dispenseJob.relayActivated
  /\ Len(busLog) > 0
  /\ busLog[Len(busLog)].op = "off" /\ ~busLog[Len(busLog)].ack

(***************************************************************************)
(* Properties of the interrupt handlers.                                   *)
(***************************************************************************)
\* C25 - No lost or duplicated coin pulse: wherever the coin handler runs
\* between the steps of loop(), the number of edges it has recorded equals
\* the sum of the drained counts plus the counter (the difference kept in
\* coinUndrained equals the counter), and a drain takes the whole counter and
\* leaves 0.
C25_NoLostCoinPulse ==
  /\ [](coinUndrained = coinPulseCount)
  /\ [][ (pc = "coinDrain" /\ pc' = "bill")
           => /\ pulsesToProcess'.coin = coinPulseCount
              /\ coinPulseCount' = 0 ]_vars

\* A drain has taken a count of one edge and the handler has recorded the
\* next edge right after it, before the bill step: one drained, one pending.
C25_Witness ==
  /\ pc = "bill"
  /\ pulsesToProcess.coin = 1
  /\ coinPulseCount = 1 /\ coinUndrained = 1

\* C26 - The coin counter is drained only when, at the moment of the
\* read-and-zero, the time since the last recorded edge exceeds the grouping
\* timeout: no edge arrives between the timeout test and the drain.
C26_DrainOnlyAfterQuiet ==
  [][ (pc = "coinDrain" /\ pc' = "bill")
        => since["lastCoinPulseTime"] > COIN_PROCESSING_DELAY ]_vars

\* C27 - Two coin pulse groups separated by a quiet gap longer than the
\* grouping timeout are never merged into one count, also when loop() is
\* inside a blocking wait while they arrive: a drain made after a quiet gap
\* takes edges none of which came more than the timeout after the one
\* before it.
C27_GroupsNeverMerged ==
  [][ (pc = "coinDrain" /\ pc' = "bill"
         /\ since["lastCoinPulseTime"] > COIN_PROCESSING_DELAY)
        => coinGroupIntact ]_vars

\* A step of processBillAcceptorPulses() ends outside the quiet period.
BillStepEnds ==
  /\ pc \in {"bill", "billDrain"} /\ pc' = "dispense"
  /\ ~RelayQuiet

BillEdge == billEdge'.seen # billEdge.seen

\* C29 - The bill handler counts an edge only if the edge comes at or after
\* the end of the start-up window and more than the debounce interval after
\* the last counted edge; the counter grows only by a counted edge, by one;
\* an edge that is not counted leaves the counter and both bill timestamps
\* as they were.
C29_BillEdgeFilter ==
  /\ [][ (BillEdge /\ billEdge'.counted)
           => /\ since["bootTime"] >= STARTUP_IGNORE_BILL_TIME
              /\ since["lastBillDebounceEdgeTime"] > BILL_ISR_DEBOUNCE_MS
              /\ billAcceptorPulseCount' = billAcceptorPulseCount + 1 ]_vars
  /\ [][ billAcceptorPulseCount' > billAcceptorPulseCount
           => BillEdge /\ billEdge'.counted ]_vars
  /\ [][ (BillEdge /\ ~billEdge'.counted)
           => /\ billAcceptorPulseCount' = billAcceptorPulseCount
              /\ since'["lastBillPulseEdgeTime"] = since["lastBillPulseEdgeTime"]
              /\ since'["lastBillDebounceEdgeTime"] = since["lastBillDebounceEdgeTime"] ]_vars

\* After the start-up window an edge was counted and the edge after it, within
\* the debounce interval, rejected.
C29_Witness ==
  /\ since["bootTime"] >= STARTUP_IGNORE_BILL_TIME
  /\ billAcceptorPulseCount = 1
  /\ billEdge = [seen |-> 0, counted |-> FALSE]
  /\ since["lastBillDebounceEdgeTime"] <= BILL_ISR_DEBOUNCE_MS

(***************************************************************************)
(* Properties of the relay driver.                                         *)
(***************************************************************************)
\* A call of controlSlotRelay() has just transmitted.
RelayTransmitted == Len(busLog') > Len(busLog)

\* C30 - A call of controlSlotRelay(slot, activate) with slot in 0..15 changes
\* no bit of the relay mask but that of the slot, which it sets to activate,
\* and makes one transmission, of the byte of the bank (slots 0-7 or 8-15)
\* that holds the slot; a call with the arguments of the call before it leaves
\* the mask as that call left it; a call with a slot outside 0..15 returns
\* failure and changes neither the mask nor the bus nor the time of the last
\* relay change.
C30_RelayDriver ==
  /\ [][ RelayTransmitted
           => LET e == busLog'[Len(busLog')] IN
              /\ Len(busLog') = Len(busLog) + 1
              /\ relayCall'.made /\ relayCall'.slot = e.slot
              /\ e.slot \in 0 .. 15
              /\ \A i \in 0 .. 16 :
                    i # e.slot => (i \in expanderOutputStates' <=> i \in expanderOutputStates)
              /\ e.slot \in expanderOutputStates' <=> relayCall'.activate
              /\ e.data = { i \in expanderOutputStates' :
                              IF e.slot < 8 THEN i < 8 ELSE i >= 8 /\ i < 16 }
              /\ relayCall'.ok = e.ack ]_vars
  /\ [][ (RelayTransmitted /\ relayCall.made
             /\ relayCall'.slot = relayCall.slot
             /\ relayCall'.activate = relayCall.activate)
           => expanderOutputStates' = expanderOutputStates ]_vars
  /\ [][ (relayCall' # relayCall /\ relayCall'.made /\ relayCall'.slot \notin 0 .. 15)
           => /\ ~relayCall'.ok
              /\ expanderOutputStates' = expanderOutputStates
              /\ busLog' = busLog
              /\ since' = since ]_vars

\* The relay of slot 16 (index 15) was switched on twice in a row, then the
\* driver was called with index 16.
C30_Witness ==
  /\ Len(busLog) = 2
  /\ \A i \in 1 .. 2 : busLog[i].slot = 15 /\ busLog[i].op = "on" /\ busLog[i].data = {15}
  /\ expanderOutputStates = {15}
  /\ relayCall = [ made |-> TRUE, slot |-> 16, activate |-> TRUE, ok |-> FALSE ]

(***************************************************************************)
(* Properties of the ledger, the selection and the display states.         *)
(***************************************************************************)
\* C31 - The relay mask mirrors the dispense state: with no job active the
\* mask is empty, and while a job is active no bit but that of the job's slot
\* is set (no relay test of the web interface runs in this specification).
C31_MaskMirrorsJob ==
  /\ ~dispenseJob.active => expanderOutputStates = {}
  /\ dispenseJob.active => expanderOutputStates \subseteq {dispenseJob.slot}

\* processDispenseJob() has just debited the credit for a job.
DebitStep == jobDebits' = jobDebits + 1

\* C32 - A job created by '#' is activated and debited in the tick that
\* created it: a job whose relay has not been switched on exists only between
\* the keypad step and the dispense step of one iteration (or inside the
\* error display of its failed activation, which no debit follows), where no
\* web request is served; at the debit the job is that of this iteration's
\* '#', the credit is at least the slot's price, the slot is available and
\* unlocked, and the new credit is the old one less the price.
C32_SameTickCommit ==
  /\ []( (dispenseJob.active /\ ~dispenseJob.relayActivated)
          => \/ pc \in {"coin", "coinDrain", "bill", "billDrain", "dispense"}
             \/ pc = "errorDwell" /\ ret = "dispense" )
  /\ [][ (dispenseJob.active /\ ~dispenseJob.relayActivated /\ pc = "errorDwell")
           => jobDebits' = jobDebits ]_vars
  /\ [][ DebitStep
           => /\ pc = "dispense"
              /\ Len(busLog) >= 1 /\ busLog[1].op = "probe" /\ busLog[1].ack
              /\ credit >= slotPrices[dispenseJob.slot]
              /\ slotAvailable[dispenseJob.slot]
              /\ ~slotLocked[dispenseJob.slot]
              /\ credit' = credit - slotPrices[dispenseJob.slot] ]_vars

\* Slot 2 has been bought at the price the administrator gave it, which was
\* all the credit there was.
C32_Witness ==
  /\ pc = "display"
  /\ jobDebits = 1
  /\ dispenseJob.active /\ dispenseJob.relayActivated /\ dispenseJob.slot = 1
  /\ slotPrices[1] = 30 /\ credit = 0
  /\ ~slotAvailable[1]

\* A web request has just been handled.
RequestHandled == pc \in {"web", "errorDwell"} /\ pc' \in {"timeouts", "errorDwell"}

\* C33 - No web request changes the availability of a locked slot: a refill
\* of a locked slot leaves it as it is, and a refill (one slot or all) makes
\* available only slots that are unlocked and active.
C33_RefillRespectsLock ==
  /\ [][ RequestHandled
           => \A i \in Slots : slotLocked[i] => slotAvailable'[i] = slotAvailable[i] ]_vars
  /\ [][ (RequestHandled /\ activeSlots' = activeSlots)
           => \A i \in Slots :
                slotAvailable'[i] # slotAvailable[i]
                  => slotAvailable'[i] /\ ~slotLocked[i] /\ i < activeSlots ]_vars

\* Both slots were sold out, and a refill has since made slot 1 available
\* while slot 2, locked, is still empty and all the credit is unspent.
C33_Witness ==
  /\ pc = "timeouts"
  /\ stockNotices.empty >= 1
  /\ slotAvailable[0] /\ ~slotAvailable[1] /\ slotLocked[1]
  /\ credit = 30

\* C34 - Whenever a step changes the price, the availability or the lock
\* flag of a slot, the store holds the new value under an existing key after
\* the step; at the start of every iteration of loop() memory and store agree
\* on the three per-slot fields and on the number of active slots.
C34_LedgerDurable ==
  /\ [][ \A i \in Slots :
           /\ slotPrices'[i] # slotPrices[i]
                => preferences'.price[i] = slotPrices'[i] /\ <<"price", i>> \in preferences'.keys
           /\ slotAvailable'[i] # slotAvailable[i]
                => preferences'.avail[i] = slotAvailable'[i] /\ <<"avail", i>> \in preferences'.keys
           /\ slotLocked'[i] # slotLocked[i]
                => preferences'.locked[i] = slotLocked'[i] /\ <<"locked", i>> \in preferences'.keys
        ]_vars
  /\ []( pc = "web"
          => /\ slotPrices = preferences.price
             /\ slotAvailable = preferences.avail
             /\ slotLocked = preferences.locked
             /\ activeSlots = preferences.activeSlots )

\* At the start of an iteration slot 2 is sold, locked and repriced, and a
\* third slot is active.
C34_Witness ==
  /\ pc = "web"
  /\ ~slotAvailable[1] /\ slotLocked[1] /\ slotPrices[1] = 30
  /\ activeSlots = 3
  /\ <<"price", 2>> \in preferences.keys

\* C35 - A change of the number of active slots leaves the price, the
\* availability and the lock flag of every slot as they were.
C35_ResizeKeepsSlots ==
  [][ activeSlots' # activeSlots
        => /\ slotPrices' = slotPrices
           /\ slotAvailable' = slotAvailable
           /\ slotLocked' = slotLocked ]_vars

\* C36 - In every state selectedSlot is -1 or the index of an active slot,
\* and the slot of an active job is the index of an active slot.
C36_SelectionInRange ==
  /\ selectedSlot = -1 \/ selectedSlot \in 0 .. (activeSlots - 1)
  /\ dispenseJob.active => dispenseJob.slot \in 0 .. (activeSlots - 1)

\* C37 - A '#' read while the buffer is not empty and does not denote the
\* number of an active slot creates no dispense job (the first half of the
\* statement; the second half says the same of every job created).
C37_NoPurchaseFromStaleInput ==
  [][ (/\ pc = "keypad" /\ key' = "#"
       /\ keypadInputBuffer # << >>
       /\ toInt(keypadInputBuffer) \notin 1 .. activeSlots)
        => dispenseJob' = dispenseJob ]_vars

\* displayErrorMessage() returns to the step that raised the error.
ErrorEnds == pc = "errorDwell" /\ pc' # "errorDwell"

\* C38 - The state is ERROR_DISPLAY only inside the busy-wait of an error
\* display, so at the start of every iteration of loop() it is IDLE,
\* USER_INTERACTION or OTA_UPDATE; every error display ends, before loop()
\* goes on, with nothing selected, the buffer empty and the state IDLE, and
\* an error display that follows another at once starts with nothing selected
\* and the buffer empty.
C38_ErrorDisplayTransient ==
  /\ [](currentSystemState = "ERROR_DISPLAY" <=> pc = "errorDwell")
  /\ [](pc = "web" => currentSystemState \in {"IDLE", "USER_INTERACTION", "OTA_UPDATE"})
  /\ [][ ErrorEnds
           => /\ selectedSlot' = -1
              /\ keypadInputBuffer' = << >>
              /\ currentSystemState' = "IDLE" ]_vars
  /\ [][ (pc = "errorDwell" /\ pc' = "errorDwell" /\ ret' # ret)
           => selectedSlot' = -1 /\ keypadInputBuffer' = << >> ]_vars

\* The error display of a '#' pressed during an active job has just ended:
\* the state is IDLE with the job still active.
C38_Witness ==
  /\ pc = "coin" /\ key = "#"
  /\ currentSystemState = "IDLE"
  /\ selectedSlot = -1 /\ keypadInputBuffer = << >>
  /\ dispenseJob.active /\ dispenseJob.relayActivated

\* The timeout step of loop() finds the display-inactivity timeout or the
\* slot-selection timeout expired.
TimeoutFires ==
  /\ pc = "timeouts"
  /\ currentSystemState # "OTA_UPDATE"
  /\ \/ /\ since["lastUserInteractionTime"] > DISPLAY_TIMEOUT
        /\ currentSystemState # "IDLE"
     \/ /\ selectedSlot # -1
        /\ since["slotSelectedTime"] > SLOT_SELECTION_TIMEOUT

\* C39 - A display-inactivity or slot-selection timeout clears the selection
\* and the buffer, sets the state to IDLE and restamps the interaction time;
\* it leaves credit, prices, availability, locks, the slot count, the store,
\* the dispense job and the relay bitmask unchanged.
C39_SoftTimeouts ==
  [][ TimeoutFires
       => /\ selectedSlot' = -1
          /\ keypadInputBuffer' = << >>
          /\ currentSystemState' = "IDLE"
          /\ since'["lastUserInteractionTime"] = 0
          /\ UNCHANGED << credit, ledgerVars, preferences, dispenseJob,
                          expanderOutputStates >> ]_vars

\* A timeout has just fired while a paid job holds its relay on and credit is
\* left: only the timeout step leaves the state IDLE with a job active.
C39_Witness ==
  /\ pc = "keypad"
  /\ currentSystemState = "IDLE"
  /\ selectedSlot = -1 /\ keypadInputBuffer = << >>
  /\ since["lastUserInteractionTime"] = 0
  /\ dispenseJob.active /\ dispenseJob.relayActivated
  /\ credit > 0
  /\ expanderOutputStates # {}

\* C40 - The digit buffer never holds more than 2 characters, for any
\* sequence of keys and slot counts of 2, 9 and 16; it holds 2 characters only
\* while the error of an entry that is no slot number is displayed, and at
\* most 1 at every other time.
C40_BufferBounded ==
  /\ Len(keypadInputBuffer) <= 2
  /\ Len(keypadInputBuffer) = 2 => pc = "errorDwell"

\* With 16 slots active the digits '1' and '9' have filled the buffer with an
\* entry that is no slot number, and its error is on display.
C40_Witness ==
  /\ pc = "errorDwell"
  /\ activeSlots = 16
  /\ keypadInputBuffer = << "1", "9" >>

=============================================================================
